---- MODULE Spec2Model ----
(***************************************************************************)
(* Model of the task ledger of src/database.py (class Database): the       *)
(* single write connection guarded by write_lock, the lazy initialize,     *)
(* the works / users / tasks / chapters / settings / logs tables, the      *)
(* bounded log queue and its background worker.                            *)
(*                                                                         *)
(* Callers are asyncio coroutines: a coroutine runs without interruption   *)
(* from one suspending await to the next, so each action below is the code *)
(* between two suspension points at which another coroutine can observe or *)
(* change shared state.  Statements on the write connection inside         *)
(* "async with self.write_lock" are grouped up to the commit or rollback   *)
(* that ends them; the working copy of an open approve_task transaction is *)
(* kept apart from the committed tables.                                   *)
(***************************************************************************)
EXTENDS Integers, Sequences, FiniteSets, TLC

\* ------------------------------------------------------------------------
\* Bounds of the model and program constants
\* ------------------------------------------------------------------------
\* rows the tasks table may hold
MaxTasks == 2
\* capacity of log_queue (asyncio.Queue(maxsize=2000) scaled down)
LogQueueMax == 1
\* batch length that forces a flush (len(batch) >= 50 scaled down)
BatchFull == 2

MAX_PRICE == 10000
read_pool_size == 5

\* concurrent callers of the Database
Procs == {"p1", "p2"}
\* concurrent readers: one more than the pool has handles
Readers == {"r1", "r2", "r3", "r4", "r5", "r6"}
\* the operations that go through the read pool
ReadOps == {"fetchone", "is_admin"}
\* the lifecycle calls that take the work's name
ByNameOps == {"submit_task_by_name", "approve_task_by_name",
              "reject_task_by_name"}
\* a third caller, present in the approval race and in the single purge
Other == "p3"
\* the caller that purges the logs while the others work on the ledger
Purger == "p2"
\* the two callers that decide on one submitted task
Approver == "p1"
Rejecter == "p2"
Users == {"u1"}
WorkNames == {"A"}
\* names that differ in letter case only
CaseNames == {"A", "a"}
OwnerIds == {"o1", "o2"}
\* the user ids given to add_admin and remove_admin
AdminIds == {"a1"}
Admin == "adm"

\* (chapter, price) arguments of create_task: both ends of the price range
\* and the nearest value outside each, and a chapter below 1
CreateArgs == {<<1, 1>>, <<2, MAX_PRICE>>, <<1, 0>>, <<1, MAX_PRICE + 1>>,
               <<0, 1>>}
\* (work_id, chapter) arguments of submit_task, approve_task, reject_task;
\* the rows of chapter 2 stay pending beside the key that is worked on
TaskKeys == {<<1, 1>>}
\* the create_task arguments of the key that is worked on
KeyArgs == {<<1, 1>>}
\* two chapters of one user, with the two ends of the price range, and
\* their keys: what get_user_stats adds up
StatArgs == {<<1, 1>>, <<2, MAX_PRICE>>}
StatKeys == {<<1, 1>>, <<1, 2>>}
\* the display name a user is assigned under, and the names of a user
\* whose display name changes between two assignments
DisplayName == "d1"
SyncNames == {"d1", "d2"}
\* the read handles opened when an initialize fails: at the first
\* statement, or at _create_tables after the whole pool
FailAfter == {0, read_pool_size}
\* the caller of get_user_stats
Reader == "p2"

\* the caller of close
Closer == "p2"

VARIABLES
    initialized,     \* Database.initialized
    init_lock,       \* holder of Database.init_lock, "" when free
    write_conn,      \* "none", or the write handle: "open" or "closed"
    read_queue,      \* Database.read_queue: the read handles in the pool
    _read_conns,     \* Database._read_conns: every read handle opened
    closed,          \* the read handles that have been closed
    write_lock,      \* holder of Database.write_lock, "" when free
    waiters,         \* coroutines suspended in write_lock.acquire(), in order
    in_transaction,  \* the write connection has an open transaction
    uncommitted,     \* working copy of tasks and chapters inside approve_task
    works,           \* committed table works: sequence, id = position
    users,           \* committed table users: rows keyed by user_id
    tasks,           \* committed table tasks: sequence, id = position
    chapters,        \* committed table chapters: sequence, id = position
    settings,        \* value of settings['owner_id'], "" when absent
    admins,          \* committed table admins: set of user_id
    logs,            \* committed table logs
    log_queue,       \* Database.log_queue
    batch,           \* _log_worker's local batch
    wpc,             \* position of _log_worker
    pc               \* position, arguments and result of each caller

vars == <<initialized, init_lock, write_conn, read_queue, _read_conns,
          closed, write_lock, waiters, in_transaction, uncommitted, works, users, tasks, chapters,
          settings, admins, logs, log_queue, batch, wpc, pc>>

tables == <<works, users, tasks, chapters, settings, admins, logs>>
conn == <<initialized, init_lock, write_conn, read_queue, _read_conns,
          closed>>
lock == <<write_lock, waiters>>
worker == <<batch, wpc>>

\* ------------------------------------------------------------------------
\* Helpers
\* ------------------------------------------------------------------------
\* COLLATE NOCASE folds ASCII upper case to lower case before comparing
Lower(s) == IF s = "A" THEN "a" ELSE s

NoCaseEq(a, b) == Lower(a) = Lower(b)

\* what get_user_stats has read so far
NoStats == [total_earned |-> 0, chapters_count |-> 0, pending_tasks |-> 0,
            submitted_tasks |-> 0]

Idle == [at |-> "idle", op |-> "none", user_id |-> "", work_name |-> "",
         work_id |-> 0, chapter |-> 0, price |-> 0, owner_id |-> "",
         result |-> "none", task_id |-> 0, conn |-> 0, stats |-> NoStats,
         display_name |-> "", logged |-> "none", top_users |-> <<>>]

NoWork == [tasks |-> <<>>, chapters |-> <<>>, inserted |-> 0]

NoDetails == [work_id |-> 0, chapter |-> 0, price |-> 0, name |-> ""]

LogEntry(action, user_id, target_id, details, log_type) ==
    [action |-> action, user_id |-> user_id, target_id |-> target_id,
     details |-> details, log_type |-> log_type]

Range(f) == {f[i] : i \in DOMAIN f}

\* the read handles that have been opened so far: handle ids count up
Opened == Cardinality(Range(_read_conns) \cup closed)

SameKey(t, user_id, work_id, chapter) ==
    t.user_id = user_id /\ t.work_id = work_id /\ t.chapter = chapter

\* ids of the rows of tbl with the given key and a status in sts
RowsOf(tbl, user_id, work_id, chapter, sts) ==
    {i \in DOMAIN tbl : SameKey(tbl[i], user_id, work_id, chapter)
                        /\ tbl[i].status \in sts}

\* variants of the index that leave a status out, or let one in
idx_task_unique_pending_only(tbl, user_id, work_id, chapter) ==
    RowsOf(tbl, user_id, work_id, chapter, {"pending"}) # {}

idx_task_unique_submitted_only(tbl, user_id, work_id, chapter) ==
    RowsOf(tbl, user_id, work_id, chapter, {"submitted"}) # {}

idx_task_unique_rejected_too(tbl, user_id, work_id, chapter) ==
    RowsOf(tbl, user_id, work_id, chapter,
           {"pending", "submitted", "rejected"}) # {}

idx_task_unique_approved_too(tbl, user_id, work_id, chapter) ==
    RowsOf(tbl, user_id, work_id, chapter,
           {"pending", "submitted", "approved"}) # {}

\* CREATE UNIQUE INDEX idx_task_unique_pending ON tasks(user_id, work_id,
\* chapter) WHERE status IN ('pending', 'submitted'): whether a new pending
\* row of this key conflicts
idx_task_unique_pending(tbl, user_id, work_id, chapter) ==
    RowsOf(tbl, user_id, work_id, chapter, {"pending", "submitted"}) # {}

\* table chapters without its UNIQUE constraint
chapters_not_unique(chs, user_id, work_id, chapter) == FALSE

\* UNIQUE(user_id, work_id, chapter) of table chapters
chapters_unique(chs, user_id, work_id, chapter) ==
    \E i \in DOMAIN chs : SameKey(chs[i], user_id, work_id, chapter)

\* a put_nowait that loses every entry
put_nowait_lost(q, entry) == q

\* put_nowait of a non-financial entry: QueueFull is swallowed
put_nowait(q, entry) ==
    IF Len(q) >= LogQueueMax THEN q ELSE Append(q, entry)

\* the validation at the head of create_task
create_task_validate(price, chapter) ==
    IF price <= 0 \/ price > MAX_PRICE THEN "bad_price"
    ELSE IF chapter <= 0 THEN "bad_chapter"
    ELSE "valid"

\* a lock that is handed to whoever asks for it
Acquire_steal(who) == write_lock' = who /\ UNCHANGED waiters

\* asyncio.Lock.acquire: taken at once when free, else the caller queues
Acquire(who) ==
    IF write_lock = ""
    THEN write_lock' = who /\ UNCHANGED waiters
    ELSE waiters' = Append(waiters, who) /\ UNCHANGED write_lock

\* asyncio.Lock.release: the first waiter is woken and takes the lock
Release ==
    IF waiters = <<>>
    THEN write_lock' = "" /\ UNCHANGED waiters
    ELSE write_lock' = Head(waiters) /\ waiters' = Tail(waiters)

\* what a finished call leaves to its caller
Result(r, res) ==
    [Idle EXCEPT !.at = "done", !.op = r.op, !.work_id = r.work_id,
                 !.result = res, !.stats = r.stats,
                 !.top_users = r.top_users]

Done(p, res) == pc' = [pc EXCEPT ![p] = Result(pc[p], res)]

\* "except asyncio.QueueFull" of _enqueue_log: what the logger is given for
\* an entry of log_type that meets the queue q
enqueue_log_logged(q, log_type) ==
    IF Len(q) >= LogQueueMax /\ log_type = "financial"
    THEN "critical" ELSE "none"

\* the call ends with res after _enqueue_log of an entry of log_type
DoneEnqueued(p, r, res, log_type) ==
    pc' = [pc EXCEPT ![p] =
             [Result(r, res) EXCEPT
                !.logged = enqueue_log_logged(log_queue, log_type)]]

\* a call once "if not self.initialized" is behind it: create_task
\* validates its arguments, a read goes on to _get_read_conn, every other
\* operation enters "async with self.write_lock"
Begin(p, r) ==
    IF r.op = "initialize"
    THEN /\ pc' = [pc EXCEPT ![p] = Result(r, "returned")]
         /\ UNCHANGED lock
    ELSE IF r.op = "create_task"
         /\ create_task_validate(r.price, r.chapter) # "valid"
    THEN /\ pc' = [pc EXCEPT ![p] =
                     Result(r, create_task_validate(r.price, r.chapter))]
         /\ UNCHANGED lock
    ELSE IF r.op \in ReadOps
    THEN /\ pc' = [pc EXCEPT ![p] = [r EXCEPT !.at = "get_read_conn"]]
         /\ UNCHANGED lock
    ELSE IF r.op \in ByNameOps
    THEN /\ pc' = [pc EXCEPT ![p] = [r EXCEPT !.at = "get_work_by_name"]]
         /\ UNCHANGED lock
    ELSE IF r.op = "get_user_stats"
    THEN /\ pc' = [pc EXCEPT ![p] = [r EXCEPT !.at = "stats_total"]]
         /\ UNCHANGED lock
    ELSE IF r.op = "get_team_stats"
    THEN /\ pc' = [pc EXCEPT ![p] = [r EXCEPT !.at = "team_totals"]]
         /\ UNCHANGED lock
    ELSE /\ pc' = [pc EXCEPT ![p] = [r EXCEPT !.at = "locked"]]
         /\ Acquire(p)

\* a call starts: "if not self.initialized: await self.initialize()"
Invoke(p, r) ==
    /\ pc[p].at = "idle"
    /\ IF initialized
       THEN Begin(p, r)
       ELSE /\ pc' = [pc EXCEPT ![p] = [r EXCEPT !.at = "init_wait"]]
            /\ UNCHANGED lock
    /\ UNCHANGED <<conn, in_transaction, uncommitted, tables, log_queue,
                   worker>>

\* calls of op that have not returned
InFlight(op) ==
    Cardinality({q \in DOMAIN pc : pc[q].op = op /\ pc[q].at # "done"})

\* ------------------------------------------------------------------------
\* Initial state: a constructed Database over an empty database file
\* ------------------------------------------------------------------------
InitDatabase ==
    /\ initialized = FALSE
    /\ init_lock = ""
    /\ write_conn = "none"
    /\ read_queue = <<>>
    /\ _read_conns = <<>>
    /\ closed = {}
    /\ write_lock = ""
    /\ waiters = <<>>
    /\ in_transaction = FALSE
    /\ uncommitted = NoWork
    /\ works = <<>>
    /\ users = {}
    /\ tasks = <<>>
    /\ chapters = <<>>
    /\ settings = ""
    /\ admins = {}
    /\ logs = <<>>
    /\ log_queue = <<>>
    /\ batch = <<>>
    /\ wpc = "none"

Init == InitDatabase /\ pc = [p \in Procs |-> Idle]

InitRace == InitDatabase /\ pc = [p \in Procs \cup {Other} |-> Idle]

InitReaders == InitDatabase /\ pc = [p \in Readers |-> Idle]

\* ------------------------------------------------------------------------
\* Calls
\* ------------------------------------------------------------------------
\* an explicit "await db.initialize()": straight to init_lock
call_initialize(p) ==
    /\ pc[p].at = "idle"
    /\ pc' = [pc EXCEPT ![p] = [Idle EXCEPT !.op = "initialize",
                                            !.at = "init_wait"]]
    /\ UNCHANGED <<conn, lock, in_transaction, uncommitted, tables,
                   log_queue, worker>>

\* the initializations that the model follows
MaxInits == 2

\* "await db.close()", while the handles of a further initialization are
\* within the bound: "if not self.initialized: return"; with a running
\* worker close goes on to log_queue.join()
call_close(p) ==
    /\ pc[p].at = "idle"
    /\ Opened <= read_pool_size * (MaxInits - 1)
    /\ pc' = [pc EXCEPT ![p] =
                IF ~initialized
                THEN Result([Idle EXCEPT !.op = "close"], "returned")
                ELSE IF wpc \in {"none", "done"}
                THEN [Idle EXCEPT !.op = "close", !.at = "close_write"]
                ELSE [Idle EXCEPT !.op = "close", !.at = "close_join"]]
    /\ UNCHANGED <<conn, lock, in_transaction, uncommitted, tables,
                   log_queue, worker>>

call_set_owner_id(p) ==
    \E o \in OwnerIds :
       Invoke(p, [Idle EXCEPT !.op = "set_owner_id", !.owner_id = o])

call_fetchone(p) == Invoke(p, [Idle EXCEPT !.op = "fetchone"])

call_is_admin(p) ==
    \E a \in AdminIds :
       Invoke(p, [Idle EXCEPT !.op = "is_admin", !.user_id = a])

call_add_admin(p) ==
    \E a \in AdminIds :
       Invoke(p, [Idle EXCEPT !.op = "add_admin", !.user_id = a])

call_remove_admin(p) ==
    \E a \in AdminIds :
       Invoke(p, [Idle EXCEPT !.op = "remove_admin", !.user_id = a])

call_add_work_of(p, names) ==
    \E n \in names :
       Invoke(p, [Idle EXCEPT !.op = "add_work", !.work_name = n])

call_add_work(p) == call_add_work_of(p, WorkNames)

call_delete_work_of(p, names) ==
    \E n \in names :
       Invoke(p, [Idle EXCEPT !.op = "delete_work", !.work_name = n])

call_delete_work(p) == call_delete_work_of(p, WorkNames)

call_create_task_as(p, args, names) ==
    /\ Len(tasks) + InFlight("create_task") < MaxTasks
    /\ \E u \in Users, n \in WorkNames, a \in args, d \in names :
         Invoke(p, [Idle EXCEPT !.op = "create_task", !.user_id = u,
                                !.work_name = n, !.chapter = a[1],
                                !.price = a[2], !.display_name = d])

call_create_task_of(p, args) == call_create_task_as(p, args, {DisplayName})

call_create_task(p) == call_create_task_of(p, CreateArgs)

call_submit_task_of(p, keys) ==
    \E u \in Users, k \in keys :
       Invoke(p, [Idle EXCEPT !.op = "submit_task", !.user_id = u,
                              !.work_id = k[1], !.chapter = k[2]])

call_submit_task(p) == call_submit_task_of(p, TaskKeys)

call_approve_task_of(p, keys) ==
    \E u \in Users, k \in keys :
       Invoke(p, [Idle EXCEPT !.op = "approve_task", !.user_id = u,
                              !.work_id = k[1], !.chapter = k[2]])

call_approve_task(p) == call_approve_task_of(p, TaskKeys)

call_get_team_stats(p) == Invoke(p, [Idle EXCEPT !.op = "get_team_stats"])

call_get_user_stats(p) ==
    \E u \in Users :
       Invoke(p, [Idle EXCEPT !.op = "get_user_stats", !.user_id = u])

\* a get_user_stats in a quiescent state: no other call is in progress
call_get_user_stats_quiescent(p) ==
    /\ \A q \in DOMAIN pc \ {p} : pc[q].at \in {"idle", "done"}
    /\ call_get_user_stats(p)

\* a get_user_stats that overlaps submissions and approvals, but no
\* create_task: the number of the user's tasks is fixed while it reads
call_get_user_stats_concurrently(p) ==
    /\ \A q \in DOMAIN pc \ {p} :
          pc[q].op = "create_task" => pc[q].at \in {"idle", "done"}
    /\ call_get_user_stats(p)

\* one of the overlapping submissions: no other submitter has returned
call_submit_task_concurrently(p) ==
    /\ \A q \in Procs \ {p} : pc[q].at # "done"
    /\ call_submit_task(p)

\* a rejection that overlaps the approval of the submitted task
call_reject_task_concurrently(p) ==
    /\ \A q \in Procs \ {p} : pc[q].at # "done"
    /\ \E u \in Users, k \in TaskKeys :
         /\ RowsOf(tasks, u, k[1], k[2], {"submitted"}) # {}
         /\ Invoke(p, [Idle EXCEPT !.op = "reject_task", !.user_id = u,
                                   !.work_id = k[1], !.chapter = k[2]])

\* two approvals of one submitted key that overlap: the call is made while
\* the row is submitted and before the other approver's call has finished
call_approve_task_concurrently(p) ==
    /\ \A q \in Procs \ {p} : pc[q].at # "done"
    /\ \E u \in Users, k \in TaskKeys :
         /\ RowsOf(tasks, u, k[1], k[2], {"submitted"}) # {}
         /\ Invoke(p, [Idle EXCEPT !.op = "approve_task", !.user_id = u,
                                   !.work_id = k[1], !.chapter = k[2]])

call_reject_task(p) ==
    \E u \in Users, k \in TaskKeys :
       Invoke(p, [Idle EXCEPT !.op = "reject_task", !.user_id = u,
                              !.work_id = k[1], !.chapter = k[2]])

call_by_name(p) ==
    \E op \in ByNameOps, u \in Users, n \in WorkNames, k \in TaskKeys :
       Invoke(p, [Idle EXCEPT !.op = op, !.user_id = u, !.work_name = n,
                              !.chapter = k[2]])

call_delete_all_logs(p) ==
    Invoke(p, [Idle EXCEPT !.op = "delete_all_logs", !.user_id = Admin])

\* a purge that starts once every other caller's operation has completed
call_delete_all_logs_after(p) ==
    /\ \A q \in DOMAIN pc \ {p} : pc[q].at \in {"idle", "done"}
    /\ call_delete_all_logs(p)

\* the caller takes the result; the slot is free for the next call
return(p) ==
    /\ pc[p].at = "done"
    /\ pc' = [pc EXCEPT ![p] = Idle]
    /\ UNCHANGED <<conn, lock, in_transaction, uncommitted, tables,
                   log_queue, worker>>

\* the caller takes the result of its call of op
return_from(p, op) == pc[p].op = op /\ return(p)

\* ------------------------------------------------------------------------
\* initialize
\* ------------------------------------------------------------------------
\* "async with self.init_lock: if self.initialized: return"
\* an initialize that does not look at the flag
initialized_ignored(flag) == FALSE

\* "if self.initialized: return" under init_lock
initialized_under_lock(flag) == flag

initialize_enter(p) ==
    /\ pc[p].at = "init_wait"
    /\ init_lock = ""
    /\ IF initialized_under_lock(initialized)
       THEN Begin(p, pc[p]) /\ UNCHANGED init_lock
       ELSE /\ pc' = [pc EXCEPT ![p].at = "init_body"]
            /\ init_lock' = p
            /\ UNCHANGED lock
    /\ UNCHANGED <<initialized, write_conn, read_queue, _read_conns, closed,
                   in_transaction, uncommitted, tables, log_queue, worker>>

\* connect the write handle and the read pool, create the tables, start
\* _log_worker, set initialized
\* the k handles that the loop over range(read_pool_size) opens
new_read_conns(k) == [i \in 1..k |-> Opened + i]

initialize(p) ==
    /\ pc[p].at = "init_body"
    /\ write_conn' = "open"
    /\ _read_conns' = _read_conns \o new_read_conns(read_pool_size)
    /\ read_queue' = read_queue \o new_read_conns(read_pool_size)
    /\ closed' = closed
    /\ wpc' = "get"
    /\ initialized' = TRUE
    /\ init_lock' = ""
    /\ Begin(p, pc[p])
    /\ UNCHANGED <<in_transaction, uncommitted, tables, log_queue, batch>>

\* a statement of initialize raises part-way, with the write handle
\* connected or not and k read handles opened: "except Exception" runs
\* _cleanup, which closes the write handle and the handles of _read_conns
\* and clears the list, and raises again; read_queue keeps what was put
initialize_error(p) ==
    /\ pc[p].at = "init_body"
    /\ \E k \in FailAfter, connected \in BOOLEAN :
          /\ ~connected => k = 0
          /\ Opened + k <= read_pool_size * (MaxInits - 1)
          /\ write_conn' = IF connected \/ write_conn # "none"
                           THEN "closed" ELSE "none"
          /\ read_queue' = read_queue \o new_read_conns(k)
          /\ closed' = closed \cup Range(_read_conns)
                              \cup Range(new_read_conns(k))
    /\ _read_conns' = <<>>
    /\ init_lock' = ""
    /\ Done(p, "raised")
    /\ UNCHANGED <<initialized, lock, in_transaction, uncommitted, tables,
                   log_queue, worker>>

\* the caller p holds write_lock and runs the operation op
Holds(p, op) ==
    /\ pc[p].at = "locked" /\ pc[p].op = op /\ write_lock = p
    /\ write_conn = "open"

\* ------------------------------------------------------------------------
\* read pool
\* ------------------------------------------------------------------------
\* "conn = await self._get_read_conn()": read_queue.get() suspends while
\* the pool is empty
get_read_conn(p) ==
    /\ pc[p].at = "get_read_conn"
    /\ read_queue # <<>>
    /\ read_queue' = Tail(read_queue)
    /\ pc' = [pc EXCEPT ![p].at = "reading", ![p].conn = Head(read_queue)]
    /\ UNCHANGED <<initialized, init_lock, write_conn, _read_conns, closed,
                   lock, in_transaction,
                   uncommitted, tables, log_queue, worker>>

\* a try block that puts the handle back only when nothing was raised
release_unless_raised(q, c, raised) == IF raised THEN q ELSE Append(q, c)

\* "finally: await self._release_read_conn(conn)": read_queue.put(conn)
finally_release(q, c, raised) == Append(q, c)

\* execute, fetchone, cursor.close return the row or raise; the finally
\* clause runs on both exits
fetchone(p) ==
    /\ pc[p].at = "reading"
    /\ pc[p].op = "fetchone"
    /\ \E raised \in IF pc[p].conn \in closed THEN {TRUE} ELSE BOOLEAN :
          /\ read_queue' = finally_release(read_queue, pc[p].conn, raised)
          /\ Done(p, IF raised THEN "raised" ELSE "row")
    /\ UNCHANGED <<initialized, init_lock, write_conn, _read_conns, closed,
                   lock, in_transaction,
                   uncommitted, tables, log_queue, worker>>

\* ------------------------------------------------------------------------
\* stats
\* ------------------------------------------------------------------------
\* one _fetchone or _fetchall: the handle at the head of the pool is taken
\* and put back at its end
fetch_through_pool(q) == Append(Tail(q), Head(q))

\* SELECT COALESCE(SUM(price), 0) FROM chapters WHERE user_id = ?
RECURSIVE coalesce_sum_price(_, _)
coalesce_sum_price(chs, user_id) ==
    IF chs = <<>> THEN 0
    ELSE (IF Head(chs).user_id = user_id THEN Head(chs).price ELSE 0)
         + coalesce_sum_price(Tail(chs), user_id)

\* SELECT COALESCE(SUM(price), 0) FROM chapters
RECURSIVE sum_price(_)
sum_price(chs) ==
    IF chs = <<>> THEN 0 ELSE Head(chs).price + sum_price(Tail(chs))

\* SELECT COUNT(*) FROM chapters WHERE user_id = ?
count_chapters(chs, user_id) ==
    Cardinality({i \in DOMAIN chs : chs[i].user_id = user_id})

\* a COUNT(*) that forgets the status
count_tasks_any(tbl, user_id, status) ==
    Cardinality({i \in DOMAIN tbl : tbl[i].user_id = user_id})

\* SELECT COUNT(*) FROM tasks WHERE user_id = ? AND status = ?
count_tasks(tbl, user_id, status) ==
    Cardinality({i \in DOMAIN tbl :
                    tbl[i].user_id = user_id /\ tbl[i].status = status})

\* the first query, total and count of the user's chapters, and the query
\* of the recent chapters
get_user_stats_total(p) ==
    /\ pc[p].at = "stats_total"
    /\ read_queue # <<>>
    /\ read_queue' = fetch_through_pool(fetch_through_pool(read_queue))
    /\ pc' = [pc EXCEPT
                ![p].at = "stats_pending",
                ![p].stats.total_earned =
                    coalesce_sum_price(chapters, pc[p].user_id),
                ![p].stats.chapters_count =
                    count_chapters(chapters, pc[p].user_id)]
    /\ UNCHANGED <<initialized, init_lock, write_conn, _read_conns, closed,
                   lock, in_transaction,
                   uncommitted, tables, log_queue, worker>>

\* the query of the pending tasks
get_user_stats_pending(p) ==
    /\ pc[p].at = "stats_pending"
    /\ read_queue # <<>>
    /\ read_queue' = fetch_through_pool(read_queue)
    /\ pc' = [pc EXCEPT
                ![p].at = "stats_submitted",
                ![p].stats.pending_tasks =
                    count_tasks(tasks, pc[p].user_id, "pending")]
    /\ UNCHANGED <<initialized, init_lock, write_conn, _read_conns, closed,
                   lock, in_transaction,
                   uncommitted, tables, log_queue, worker>>

\* the query of the submitted tasks, the query of the display name and
\* the return of the dict
get_user_stats_submitted(p) ==
    /\ pc[p].at = "stats_submitted"
    /\ read_queue # <<>>
    /\ read_queue' = fetch_through_pool(fetch_through_pool(read_queue))
    /\ pc' = [pc EXCEPT ![p] =
                Result([pc[p] EXCEPT !.stats.submitted_tasks =
                           count_tasks(tasks, pc[p].user_id, "submitted")],
                       "stats")]
    /\ UNCHANGED <<initialized, init_lock, write_conn, _read_conns, closed,
                   lock, in_transaction,
                   uncommitted, tables, log_queue, worker>>

\* LIMIT 5 of the top-users query
top_users_limit == 5

\* SELECT user_id, COUNT(*) as count, COALESCE(SUM(price), 0) as total
\* FROM chapters GROUP BY user_id: one row per user
group_by_user_id(chs) ==
    {[user_id |-> u, count |-> count_chapters(chs, u),
      total |-> coalesce_sum_price(chs, u)] :
        u \in {chs[i].user_id : i \in DOMAIN chs}}

\* ORDER BY count DESC LIMIT n: the results the statement allows. Rows of
\* equal count have no order among themselves, and no rule says which of
\* them the limit keeps
order_by_count_desc_limit(rows, n) ==
    LET len == IF Cardinality(rows) < n THEN Cardinality(rows) ELSE n
    IN {s \in [1..len -> rows] :
          /\ \A i, j \in 1..len : i < j => /\ s[i] # s[j]
                                           /\ s[i].count >= s[j].count
          /\ \A r \in rows :
                (\A i \in 1..len : s[i] # r)
                => \A i \in 1..len : s[i].count >= r.count}

\* the four _fetchone of get_team_stats: totals of chapters and counts of
\* the open tasks of all users
get_team_stats_totals(p) ==
    /\ pc[p].at = "team_totals"
    /\ read_queue # <<>>
    /\ read_queue' = fetch_through_pool(fetch_through_pool(
                        fetch_through_pool(fetch_through_pool(read_queue))))
    /\ pc' = [pc EXCEPT
                ![p].at = "team_top",
                ![p].stats.chapters_count = Len(chapters),
                ![p].stats.total_earned =
                    sum_price(chapters),
                ![p].stats.pending_tasks =
                    Cardinality({i \in DOMAIN tasks :
                                    tasks[i].status = "pending"}),
                ![p].stats.submitted_tasks =
                    Cardinality({i \in DOMAIN tasks :
                                    tasks[i].status = "submitted"})]
    /\ UNCHANGED <<initialized, init_lock, write_conn, _read_conns, closed,
                   lock, in_transaction,
                   uncommitted, tables, log_queue, worker>>

\* the _fetchall of the top users and the return of the dict
get_team_stats_top(p) ==
    /\ pc[p].at = "team_top"
    /\ read_queue # <<>>
    /\ read_queue' = fetch_through_pool(read_queue)
    /\ \E rows \in order_by_count_desc_limit(group_by_user_id(chapters),
                                              top_users_limit) :
          pc' = [pc EXCEPT ![p] =
                   Result([pc[p] EXCEPT !.top_users = rows], "stats")]
    /\ UNCHANGED <<initialized, init_lock, write_conn, _read_conns, closed,
                   lock, in_transaction,
                   uncommitted, tables, log_queue, worker>>

\* ------------------------------------------------------------------------
\* owner
\* ------------------------------------------------------------------------
\* INSERT OR REPLACE INTO settings (key, value) VALUES ('owner_id', ?)
insert_or_replace_owner(old, owner_id) == owner_id

set_owner_id(p) ==
    /\ Holds(p, "set_owner_id")
    /\ settings' = insert_or_replace_owner(settings, pc[p].owner_id)
    /\ in_transaction' = FALSE
    /\ Release
    /\ Done(p, "returned")
    /\ UNCHANGED <<conn, uncommitted, works, users, tasks, chapters, admins,
                   logs, log_queue, worker>>

\* ------------------------------------------------------------------------
\* admin
\* ------------------------------------------------------------------------
\* INSERT OR IGNORE INTO admins, commit, rowcount > 0; the add_admin entry
\* is enqueued on success
\* a cursor that reports a row for an ignored INSERT
insert_rowcount_one(tbl, user_id) == 1

\* cursor.rowcount of INSERT OR IGNORE INTO admins: user_id is the PRIMARY
\* KEY
insert_rowcount(tbl, user_id) == IF user_id \in tbl THEN 0 ELSE 1

add_admin(p) ==
    /\ Holds(p, "add_admin")
    /\ admins' = admins \cup {pc[p].user_id}
    /\ IF insert_rowcount(admins, pc[p].user_id) > 0
       THEN /\ log_queue' = put_nowait(log_queue,
                  LogEntry("add_admin", Admin, pc[p].user_id, NoDetails,
                           "normal"))
            /\ DoneEnqueued(p, pc[p], "true", "normal")
       ELSE /\ UNCHANGED log_queue
            /\ Done(p, "false")
    /\ in_transaction' = FALSE
    /\ Release
    /\ UNCHANGED <<conn, uncommitted, works, users, tasks, chapters, settings,
                   logs, worker>>

\* DELETE FROM admins WHERE user_id = ?, commit, rowcount > 0; the
\* remove_admin entry is enqueued on success
remove_admin(p) ==
    /\ Holds(p, "remove_admin")
    /\ admins' = admins \ {pc[p].user_id}
    /\ IF pc[p].user_id \in admins
       THEN /\ log_queue' = put_nowait(log_queue,
                  LogEntry("remove_admin", Admin, pc[p].user_id, NoDetails,
                           "normal"))
            /\ DoneEnqueued(p, pc[p], "true", "normal")
       ELSE /\ UNCHANGED log_queue
            /\ Done(p, "false")
    /\ in_transaction' = FALSE
    /\ Release
    /\ UNCHANGED <<conn, uncommitted, works, users, tasks, chapters, settings,
                   logs, worker>>

\* "SELECT 1 FROM admins WHERE user_id = ?" through _fetchone; row is not
\* None
is_admin(p) ==
    /\ pc[p].at = "reading"
    /\ pc[p].op = "is_admin"
    /\ read_queue' = finally_release(read_queue, pc[p].conn,
                                     pc[p].conn \in closed)
    /\ Done(p, IF pc[p].conn \in closed THEN "raised"
               ELSE IF pc[p].user_id \in admins THEN "true" ELSE "false")
    /\ UNCHANGED <<initialized, init_lock, write_conn, _read_conns, closed,
                   lock, in_transaction,
                   uncommitted, tables, log_queue, worker>>

\* ------------------------------------------------------------------------
\* works
\* ------------------------------------------------------------------------
\* name TEXT UNIQUE NOT NULL: the default BINARY collation, every row
works_name_unique(tbl, name) == \E i \in DOMAIN tbl : tbl[i].name = name

\* a lookup that forgets "AND is_active = 1"
works_named(tbl, name) ==
    {i \in DOMAIN tbl : NoCaseEq(tbl[i].name, name)}

\* WHERE name = ? COLLATE NOCASE AND is_active = 1
active_works_named(tbl, name) ==
    {i \in DOMAIN tbl : NoCaseEq(tbl[i].name, name) /\ tbl[i].is_active = 1}

add_work(p) ==
    /\ Holds(p, "add_work")
    /\ IF works_name_unique(works, pc[p].work_name)
       THEN \* IntegrityError: the implicit BEGIN of the INSERT stays open,
            \* the except clause neither commits nor rolls back
            /\ in_transaction' = TRUE
            /\ Done(p, "exists")
            /\ UNCHANGED <<works, log_queue>>
       ELSE /\ works' = Append(works, [name |-> pc[p].work_name,
                                       is_active |-> 1])
            /\ in_transaction' = FALSE
            /\ log_queue' = put_nowait(log_queue,
                  LogEntry("add_work", Admin, "",
                           [NoDetails EXCEPT !.name = pc[p].work_name],
                           "normal"))
            /\ DoneEnqueued(p, pc[p], "ok", "normal")
    /\ Release
    /\ UNCHANGED <<conn, uncommitted, users, tasks, chapters, settings,
                   admins, logs, worker>>

\* a DELETE FROM works in the place of the UPDATE
hard_delete(tbl, name) ==
    LET kept(w) == ~(NoCaseEq(w.name, name) /\ w.is_active = 1)
    IN SelectSeq(tbl, kept)

\* UPDATE works SET is_active = 0
\* WHERE name = ? COLLATE NOCASE AND is_active = 1
soft_delete(tbl, name) ==
    [i \in DOMAIN tbl |->
       IF i \in active_works_named(tbl, name)
       THEN [tbl[i] EXCEPT !.is_active = 0]
       ELSE tbl[i]]

delete_work(p) ==
    /\ Holds(p, "delete_work")
    /\ LET hit == active_works_named(works, pc[p].work_name)
       IN /\ works' = soft_delete(works, pc[p].work_name)
          /\ IF hit # {}
             THEN /\ log_queue' = put_nowait(log_queue,
                        LogEntry("delete_work", Admin, "",
                                 [NoDetails EXCEPT !.name = pc[p].work_name],
                                 "normal"))
                  /\ DoneEnqueued(p, pc[p], "true", "normal")
             ELSE /\ UNCHANGED log_queue
                  /\ Done(p, "false")
    /\ in_transaction' = FALSE
    /\ Release
    /\ UNCHANGED <<conn, uncommitted, users, tasks, chapters, settings,
                   admins, logs, worker>>

\* ------------------------------------------------------------------------
\* tasks
\* ------------------------------------------------------------------------
\* INSERT OR IGNORE INTO users (user_id, username, display_name, ...):
\* user_id is the PRIMARY KEY
insert_or_ignore_user(tbl, user_id, display_name) ==
    IF \E u \in tbl : u.user_id = user_id
    THEN tbl
    ELSE tbl \cup {[user_id |-> user_id, display_name |-> display_name]}

create_task(p) ==
    /\ Holds(p, "create_task")
    /\ LET r == pc[p]
           found == active_works_named(works, r.work_name)
       IN IF found = {}
          THEN /\ Done(p, "no_work")
               /\ UNCHANGED <<users, tasks, in_transaction, log_queue>>
          ELSE \E work_id \in found :
                 LET ignored == idx_task_unique_pending(tasks, r.user_id,
                                                        work_id, r.chapter)
                     row == [user_id |-> r.user_id, work_id |-> work_id,
                             chapter |-> r.chapter, price |-> r.price,
                             status |-> "pending", submitted_at |-> "NULL",
                             approved_at |-> "NULL",
                             reject_reason |-> "NULL"]
                 IN /\ users' = insert_or_ignore_user(users, r.user_id,
                                                      r.display_name)
                    /\ tasks' = IF ignored THEN tasks ELSE Append(tasks, row)
                    /\ in_transaction' = FALSE
                    /\ log_queue' =
                         IF ignored THEN log_queue
                         ELSE put_nowait(log_queue,
                                LogEntry("create_task", Admin, r.user_id,
                                   [NoDetails EXCEPT !.work_id = work_id,
                                                     !.chapter = r.chapter,
                                                     !.price = r.price],
                                   "normal"))
                    /\ IF ignored
                       THEN pc' = [pc EXCEPT ![p] =
                               Result([r EXCEPT !.work_id = work_id],
                                      "duplicate")]
                       ELSE DoneEnqueued(p, [r EXCEPT !.work_id = work_id],
                                         "ok", "normal")
    /\ Release
    /\ UNCHANGED <<conn, uncommitted, works, chapters, settings, admins, logs,
                   worker>>

\* an UPDATE that leaves "AND status = from" out
update_status_any(tbl, user_id, work_id, chapter, from, to) ==
    [i \in DOMAIN tbl |->
       IF SameKey(tbl[i], user_id, work_id, chapter)
       THEN [tbl[i] EXCEPT !.status = to]
       ELSE tbl[i]]

\* UPDATE tasks SET status = to WHERE key AND status = from
update_status(tbl, user_id, work_id, chapter, from, to) ==
    [i \in DOMAIN tbl |->
       IF i \in RowsOf(tbl, user_id, work_id, chapter, {from})
       THEN [tbl[i] EXCEPT !.status = to]
       ELSE tbl[i]]

\* a cursor that counts the rows of the key whatever their status
rowcount_any(tbl, user_id, work_id, chapter, from) ==
    Cardinality(RowsOf(tbl, user_id, work_id, chapter,
                       {"pending", "submitted", "approved", "rejected"}))

\* cursor.rowcount of the UPDATE ... AND status = from
rowcount(tbl, user_id, work_id, chapter, from) ==
    Cardinality(RowsOf(tbl, user_id, work_id, chapter, {from}))

\* UPDATE tasks SET status = 'submitted', submitted_at = now
\* WHERE key AND status = 'pending'
update_submitted(tbl, user_id, work_id, chapter) ==
    [i \in DOMAIN tbl |->
       IF i \in RowsOf(tbl, user_id, work_id, chapter, {"pending"})
       THEN [update_status(tbl, user_id, work_id, chapter, "pending",
                           "submitted")[i] EXCEPT !.submitted_at = "set"]
       ELSE update_status(tbl, user_id, work_id, chapter, "pending",
                          "submitted")[i]]

submit_task(p) ==
    /\ Holds(p, "submit_task")
    /\ LET r == pc[p]
       IN /\ tasks' = update_submitted(tasks, r.user_id, r.work_id,
                                       r.chapter)
          /\ Done(p, IF rowcount(tasks, r.user_id, r.work_id, r.chapter,
                                 "pending") > 0
                     THEN "true" ELSE "false")
    /\ in_transaction' = FALSE
    /\ Release
    /\ UNCHANGED <<conn, uncommitted, works, users, chapters, settings,
                   admins, logs, log_queue, worker>>

\* UPDATE tasks SET status = 'rejected', rejected_by, rejected_at,
\* reject_reason WHERE key AND status = 'submitted'
update_rejected(tbl, user_id, work_id, chapter) ==
    [i \in DOMAIN tbl |->
       IF i \in RowsOf(tbl, user_id, work_id, chapter, {"submitted"})
       THEN [update_status(tbl, user_id, work_id, chapter, "submitted",
                           "rejected")[i] EXCEPT !.reject_reason = "set"]
       ELSE update_status(tbl, user_id, work_id, chapter, "submitted",
                          "rejected")[i]]

reject_task(p) ==
    /\ Holds(p, "reject_task")
    /\ LET r == pc[p]
       IN /\ tasks' = update_rejected(tasks, r.user_id, r.work_id,
                                      r.chapter)
          /\ Done(p, IF rowcount(tasks, r.user_id, r.work_id, r.chapter,
                                 "submitted") > 0
                     THEN "true" ELSE "false")
    /\ in_transaction' = FALSE
    /\ Release
    /\ UNCHANGED <<conn, uncommitted, works, users, chapters, settings,
                   admins, logs, log_queue, worker>>

\* "if not work: return False" of submit_task_by_name and
\* reject_task_by_name, "return None" of approve_task_by_name
by_name_failure(op) == IF op = "approve_task_by_name" THEN "none" ELSE "false"

\* the operation a by-name call hands the work's id to
by_id(op) ==
    IF op = "submit_task_by_name" THEN "submit_task"
    ELSE IF op = "approve_task_by_name" THEN "approve_task"
    ELSE "reject_task"

\* "work = await self.get_work_by_name(work_name)" through _fetchone, the
\* failure result when there is no row, else the call of the operation
\* with work["id"], which asks for write_lock
get_work_by_name(p) ==
    /\ pc[p].at = "get_work_by_name"
    /\ read_queue # <<>>
    /\ read_queue' = fetch_through_pool(read_queue)
    /\ LET hit == active_works_named(works, pc[p].work_name)
       IN IF hit = {}
          THEN Done(p, by_name_failure(pc[p].op)) /\ UNCHANGED lock
          ELSE /\ \E w \in hit :
                    pc' = [pc EXCEPT ![p].op = by_id(pc[p].op),
                                     ![p].work_id = w,
                                     ![p].at = "locked"]
               /\ Acquire(p)
    /\ UNCHANGED <<initialized, init_lock, write_conn, _read_conns, closed,
                   in_transaction, uncommitted, tables, log_queue, worker>>

\* a SELECT that also finds the task once it is rejected
approve_select_rejected_too(tbl, user_id, work_id, chapter) ==
    RowsOf(tbl, user_id, work_id, chapter, {"submitted", "rejected"})

\* SELECT * FROM tasks WHERE key AND status = 'submitted'
\*                       AND approved_at IS NULL
approve_select(tbl, user_id, work_id, chapter) ==
    {i \in RowsOf(tbl, user_id, work_id, chapter, {"submitted"}) :
        tbl[i].approved_at = "NULL"}

\* BEGIN IMMEDIATE, the SELECT and the price check
\* a chapter priced anew when it is approved
price_at_approval(tbl, id) == MAX_PRICE

\* task["price"] of the selected row, the price the chapter gets
task_price(tbl, id) == tbl[id].price

approve_task_begin(p) ==
    /\ Holds(p, "approve_task")
    /\ LET r == pc[p]
           found == approve_select(tasks, r.user_id, r.work_id, r.chapter)
       IN IF in_transaction \/ found = {}
          THEN \* BEGIN inside an open transaction raises and the except
               \* clause rolls back; no row: ROLLBACK, return None
               /\ in_transaction' = FALSE
               /\ Release
               /\ Done(p, "none")
               /\ UNCHANGED uncommitted
          ELSE \E id \in found :
                 IF tasks[id].price <= 0
                 THEN /\ in_transaction' = FALSE
                      /\ Release
                      /\ Done(p, "none")
                      /\ UNCHANGED uncommitted
                 ELSE /\ in_transaction' = TRUE
                      /\ uncommitted' = [tasks |-> tasks,
                                         chapters |-> chapters,
                                         inserted |-> 0]
                      /\ pc' = [pc EXCEPT ![p].at = "approve_write",
                                          ![p].task_id = id,
                                          ![p].price = task_price(tasks, id)]
                      /\ UNCHANGED lock
    /\ UNCHANGED <<conn, tables, log_queue, worker>>

\* an approve_task that never sees the ignored insert
changes_one(before, after) == 1

\* SELECT changes() after the INSERT OR IGNORE INTO chapters
changes(before, after) == Len(after) - Len(before)

\* INSERT OR IGNORE INTO chapters
insert_or_ignore_chapter(chs, row) ==
    IF chapters_unique(chs, row.user_id, row.work_id, row.chapter)
    THEN chs ELSE Append(chs, row)

\* UPDATE tasks SET status = 'approved' ... WHERE id = ?, then
\* INSERT OR IGNORE INTO chapters and SELECT changes()
approve_task_write(p) ==
    /\ pc[p].at = "approve_write" /\ write_lock = p
    /\ write_conn = "open"
    /\ LET r == pc[p]
           chapter_row == [user_id |-> r.user_id, work_id |-> r.work_id,
                           chapter |-> r.chapter, price |-> r.price]
           after == insert_or_ignore_chapter(uncommitted.chapters,
                                             chapter_row)
       IN uncommitted' =
            [tasks |-> [uncommitted.tasks EXCEPT
                           ![r.task_id].status = "approved",
                           ![r.task_id].approved_at = "set"],
             chapters |-> after,
             inserted |-> changes(uncommitted.chapters, after)]
    /\ pc' = [pc EXCEPT ![p].at = "approve_commit"]
    /\ UNCHANGED <<conn, lock, in_transaction, tables, log_queue,
                   worker>>

\* a ROLLBACK that keeps what the transaction wrote
rollback_keeps(committed, working) == working

\* ROLLBACK: the table is as it was at BEGIN
rollback(committed, working) == committed

financial_approve(r) ==
    LogEntry("financial_approve", Admin, r.user_id,
             [NoDetails EXCEPT !.work_id = r.work_id, !.chapter = r.chapter,
                               !.price = r.price],
             "financial")

\* a financial entry enqueued before the outcome of the transaction is
\* known
enqueue_before_commit(q, e, committed) == Append(q, e)

\* the financial _enqueue_log follows commit(): the paths that roll back
\* return before they reach it
enqueue_after_commit(q, e, committed) ==
    IF committed THEN Append(q, e) ELSE q

\* inserted == 0: ROLLBACK and None; otherwise commit and the financial
\* "await self.log_queue.put", which suspends while the queue is full
approve_task_commit(p) ==
    /\ pc[p].at = "approve_commit" /\ write_lock = p
    /\ write_conn = "open"
    /\ IF uncommitted.inserted = 0
       THEN /\ tasks' = rollback(tasks, uncommitted.tasks)
            /\ chapters' = rollback(chapters, uncommitted.chapters)
            /\ Release
            /\ Done(p, "none")
            /\ log_queue' = enqueue_after_commit(
                                log_queue, financial_approve(pc[p]), FALSE)
       ELSE /\ tasks' = uncommitted.tasks
            /\ chapters' = uncommitted.chapters
            /\ IF Len(log_queue) < LogQueueMax
               THEN /\ log_queue' = enqueue_after_commit(
                                       log_queue, financial_approve(pc[p]),
                                       TRUE)
                    /\ Release
                    /\ Done(p, "task")
               ELSE /\ pc' = [pc EXCEPT ![p].at = "put_wait"]
                    /\ UNCHANGED <<log_queue, lock>>
    /\ uncommitted' = NoWork
    /\ in_transaction' = FALSE
    /\ UNCHANGED <<conn, works, users, settings, admins, logs, worker>>

\* a statement between BEGIN and COMMIT, or the COMMIT, raises: "except
\* Exception" runs ROLLBACK and returns None
approve_task_error(p) ==
    /\ pc[p].at \in {"approve_write", "approve_commit"} /\ write_lock = p
    /\ write_conn = "open"
    /\ tasks' = rollback(tasks, uncommitted.tasks)
    /\ chapters' = rollback(chapters, uncommitted.chapters)
    /\ uncommitted' = NoWork
    /\ in_transaction' = FALSE
    /\ Release
    /\ Done(p, "none")
    /\ UNCHANGED <<conn, works, users, settings, admins, logs, log_queue,
                   worker>>

\* the suspended financial put resumes once the queue has room
approve_task_put(p) ==
    /\ pc[p].at = "put_wait" /\ write_lock = p
    /\ Len(log_queue) < LogQueueMax
    /\ log_queue' = Append(log_queue, financial_approve(pc[p]))
    /\ Release
    /\ Done(p, "task")
    /\ UNCHANGED <<conn, in_transaction, uncommitted, tables, worker>>

\* ------------------------------------------------------------------------
\* logs management
\* ------------------------------------------------------------------------
IsFinancial(e) == e.log_type = "financial"

\* a DELETE without its WHERE clause
delete_every_row(tbl) == <<>>

\* DELETE FROM logs WHERE type != 'financial'
delete_non_financial(tbl) == SelectSeq(tbl, IsFinancial)

\* BEGIN IMMEDIATE, the DELETE and the commit; on an exception ROLLBACK
\* and return; after the lock is released the purge's own entry is enqueued
delete_all_logs(p) ==
    /\ Holds(p, "delete_all_logs")
    /\ IF in_transaction
       THEN \* BEGIN inside an open transaction raises
            /\ UNCHANGED <<logs, log_queue>>
            /\ Done(p, "returned")
       ELSE /\ logs' = delete_non_financial(logs)
            /\ log_queue' = put_nowait(log_queue,
                  LogEntry("delete_all_logs", pc[p].user_id, "", NoDetails,
                           "admin"))
            /\ DoneEnqueued(p, pc[p], "returned", "admin")
    /\ in_transaction' = FALSE
    /\ Release
    /\ UNCHANGED <<conn, uncommitted, works, users, tasks, chapters,
                   settings, admins, worker>>

\* ------------------------------------------------------------------------
\* close
\* ------------------------------------------------------------------------
\* a join that does not wait
no_unfinished_tasks(q, b) == 0

\* log_queue._unfinished_tasks: the entries put and not yet acknowledged;
\* _log_worker calls task_done for the entries of a batch after its flush
unfinished_tasks(q, b) == Len(q) + Len(b)

\* log_queue.join() returns once nothing is unfinished; the worker, waiting
\* in its get, is cancelled and ends
close_join(p) ==
    /\ pc[p].at = "close_join"
    /\ unfinished_tasks(log_queue, batch) = 0
    /\ wpc' = "done"
    /\ pc' = [pc EXCEPT ![p].at = "close_write"]
    /\ UNCHANGED <<conn, lock, in_transaction, uncommitted, tables,
                   log_queue, batch>>

\* write_conn.close(): the handle is closed whoever holds write_lock, an
\* open transaction is rolled back by the storage
close_write(p) ==
    /\ pc[p].at = "close_write"
    /\ write_conn' = "closed"
    /\ in_transaction' = FALSE
    /\ pc' = [pc EXCEPT ![p].at = "close_reads"]
    /\ UNCHANGED <<initialized, init_lock, read_queue, _read_conns, closed,
                   lock, uncommitted, tables, log_queue, worker>>

\* every handle of _read_conns is closed, in the pool or not; the list and
\* read_queue keep them; initialized = False
close_reads(p) ==
    /\ pc[p].at = "close_reads"
    /\ closed' = closed \cup Range(_read_conns)
    /\ initialized' = FALSE
    /\ Done(p, "returned")
    /\ UNCHANGED <<init_lock, write_conn, read_queue, _read_conns, lock,
                   in_transaction, uncommitted, tables, log_queue, worker>>

\* a statement on the closed write handle raises; in approve_task and
\* delete_all_logs the handler's ROLLBACK raises as well; "async with"
\* releases write_lock and the error reaches the caller
execute_on_closed(p) ==
    /\ pc[p].at \in {"locked", "approve_write", "approve_commit"}
    /\ write_lock = p
    /\ write_conn = "closed"
    /\ uncommitted' = NoWork
    /\ Release
    /\ Done(p, "raised")
    /\ UNCHANGED <<conn, in_transaction, tables, log_queue, worker>>

\* ------------------------------------------------------------------------
\* _log_worker
\* ------------------------------------------------------------------------
\* an entry arrives within the timeout; the worker then flushes when the
\* batch is full or a second has passed since the last flush
log_worker_get ==
    /\ wpc = "get"
    /\ log_queue # <<>>
    /\ log_queue' = Tail(log_queue)
    /\ batch' = Append(batch, Head(log_queue))
    /\ \E elapsed \in BOOLEAN :
         IF Len(batch') >= BatchFull \/ elapsed
         THEN wpc' = "flush" /\ Acquire("worker")
         ELSE wpc' = "get" /\ UNCHANGED lock
    /\ UNCHANGED <<conn, in_transaction, uncommitted, tables, pc>>

\* the get times out on an empty queue and a second has passed
log_worker_timeout ==
    /\ wpc = "get"
    /\ log_queue = <<>>
    /\ batch # <<>>
    /\ wpc' = "flush"
    /\ Acquire("worker")
    /\ UNCHANGED <<conn, in_transaction, uncommitted, tables, log_queue,
                   batch, pc>>

\* _flush_log_batch under write_lock: executemany INSERT INTO logs, commit;
\* then task_done for each entry and batch.clear()
flush_log_batch ==
    /\ wpc = "flush"
    /\ write_lock = "worker"
    /\ logs' = logs \o batch
    /\ in_transaction' = FALSE
    /\ Release
    /\ batch' = <<>>
    /\ wpc' = "get"
    /\ UNCHANGED <<conn, uncommitted, works, users, tasks, chapters,
                   settings, admins, log_queue, pc>>

\* _flush_log_batch when the storage raises: "except Exception" logs the
\* failure and returns, nothing is rolled back, and _log_worker goes on to
\* task_done and batch.clear(); the statement's implicit BEGIN may have
\* opened a transaction before the error
flush_log_batch_error ==
    /\ wpc = "flush"
    /\ write_lock = "worker"
    /\ \E opened \in BOOLEAN : in_transaction' = (in_transaction \/ opened)
    /\ Release
    /\ batch' = <<>>
    /\ wpc' = "get"
    /\ UNCHANGED <<conn, uncommitted, tables, log_queue, pc>>

\* ------------------------------------------------------------------------
\* Specifications
\* ------------------------------------------------------------------------
log_worker ==
    \/ log_worker_get
    \/ log_worker_timeout
    \/ flush_log_batch

\* the ledger: two callers register the work and assign, submit, approve
\* and reject tasks in any interleaving
Next ==
    \/ \E p \in Procs : call_add_work(p)
    \/ \E p \in Procs : call_create_task(p)
    \/ \E p \in Procs : call_submit_task(p)
    \/ \E p \in Procs : call_approve_task(p)
    \/ \E p \in Procs : call_reject_task(p)
    \/ \E p \in Procs : return(p)
    \/ \E p \in Procs : initialize_enter(p)
    \/ \E p \in Procs : initialize(p)
    \/ \E p \in Procs : add_work(p)
    \/ \E p \in Procs : create_task(p)
    \/ \E p \in Procs : submit_task(p)
    \/ \E p \in Procs : reject_task(p)
    \/ \E p \in Procs : approve_task_begin(p)
    \/ \E p \in Procs : approve_task_write(p)
    \/ \E p \in Procs : approve_task_commit(p)
    \/ \E p \in Procs : approve_task_put(p)
    \/ log_worker

Spec == Init /\ [][Next]_vars

\* the approval race: each of the two approvers makes one approve_task
\* call, the two calls overlap; a third caller registers works, assigns and
\* submits around them
NextRace ==
    \/ call_add_work(Other)
    \/ call_create_task(Other)
    \/ call_submit_task(Other)
    \/ return(Other)
    \/ \E p \in Procs : call_approve_task_concurrently(p)
    \/ \E p \in Procs \cup {Other} : initialize_enter(p)
    \/ \E p \in Procs \cup {Other} : initialize(p)
    \/ add_work(Other)
    \/ create_task(Other)
    \/ submit_task(Other)
    \/ \E p \in Procs : approve_task_begin(p)
    \/ \E p \in Procs : approve_task_write(p)
    \/ \E p \in Procs : approve_task_commit(p)
    \/ \E p \in Procs : approve_task_put(p)
    \/ log_worker

SpecRace == InitRace /\ [][NextRace]_vars

\* the owner setting: two callers set the owner in any interleaving
NextOwner ==
    \/ \E p \in Procs : call_set_owner_id(p)
    \/ \E p \in Procs : return(p)
    \/ \E p \in Procs : initialize_enter(p)
    \/ \E p \in Procs : initialize(p)
    \/ \E p \in Procs : set_owner_id(p)

SpecOwner == Init /\ [][NextOwner]_vars

\* the catalogue: two callers register and soft-delete works whose names
\* differ in letter case only
NextWorks ==
    \/ \E p \in Procs : call_add_work_of(p, CaseNames)
    \/ \E p \in Procs : call_delete_work_of(p, CaseNames)
    \/ \E p \in Procs : return(p)
    \/ \E p \in Procs : initialize_enter(p)
    \/ \E p \in Procs : initialize(p)
    \/ \E p \in Procs : add_work(p)
    \/ \E p \in Procs : delete_work(p)
    \/ log_worker

SpecWorks == Init /\ [][NextWorks]_vars

\* the audit log: one caller registers the work, assigns, submits and
\* approves while the other purges the logs, in any interleaving
NextLogs ==
    \/ \E p \in Procs \ {Purger} : call_add_work(p)
    \/ \E p \in Procs \ {Purger} : call_create_task_of(p, KeyArgs)
    \/ \E p \in Procs \ {Purger} : call_submit_task(p)
    \/ \E p \in Procs \ {Purger} : call_approve_task(p)
    \/ call_delete_all_logs(Purger)
    \/ \E p \in Procs : return(p)
    \/ \E p \in Procs : initialize_enter(p)
    \/ \E p \in Procs : initialize(p)
    \/ \E p \in Procs : add_work(p)
    \/ \E p \in Procs : create_task(p)
    \/ \E p \in Procs : submit_task(p)
    \/ \E p \in Procs : approve_task_begin(p)
    \/ \E p \in Procs : approve_task_write(p)
    \/ \E p \in Procs : approve_task_commit(p)
    \/ \E p \in Procs : approve_task_put(p)
    \/ delete_all_logs(Purger)
    \/ log_worker

SpecLogs == Init /\ [][NextLogs]_vars

\* one purge: the callers register the work, assign, submit and approve;
\* when their operations have completed a third caller purges the logs
\* once, and no operation is called after that
NextPurge ==
    \/ \E p \in Procs : pc[Other].at = "idle" /\ call_add_work(p)
    \/ \E p \in Procs : pc[Other].at = "idle" /\ call_create_task(p)
    \/ \E p \in Procs : pc[Other].at = "idle" /\ call_submit_task(p)
    \/ \E p \in Procs : pc[Other].at = "idle" /\ call_approve_task(p)
    \/ call_delete_all_logs_after(Other)
    \/ \E p \in Procs : return(p)
    \/ \E p \in Procs \cup {Other} : initialize_enter(p)
    \/ \E p \in Procs \cup {Other} : initialize(p)
    \/ \E p \in Procs : add_work(p)
    \/ \E p \in Procs : create_task(p)
    \/ \E p \in Procs : submit_task(p)
    \/ \E p \in Procs : approve_task_begin(p)
    \/ \E p \in Procs : approve_task_write(p)
    \/ \E p \in Procs : approve_task_commit(p)
    \/ \E p \in Procs : approve_task_put(p)
    \/ delete_all_logs(Other)
    \/ log_worker

SpecPurge == InitRace /\ [][NextPurge]_vars

\* the audit log over a storage that may fail a flush: the callers register
\* the work, assign, submit and approve
NextFlush ==
    \/ \E p \in Procs : call_add_work(p)
    \/ \E p \in Procs : call_create_task_of(p, KeyArgs)
    \/ \E p \in Procs : call_submit_task(p)
    \/ \E p \in Procs : call_approve_task(p)
    \/ \E p \in Procs : return(p)
    \/ \E p \in Procs : initialize_enter(p)
    \/ \E p \in Procs : initialize(p)
    \/ \E p \in Procs : add_work(p)
    \/ \E p \in Procs : create_task(p)
    \/ \E p \in Procs : submit_task(p)
    \/ \E p \in Procs : approve_task_begin(p)
    \/ \E p \in Procs : approve_task_write(p)
    \/ \E p \in Procs : approve_task_commit(p)
    \/ \E p \in Procs : approve_task_put(p)
    \/ log_worker
    \/ flush_log_batch_error

SpecFlush == Init /\ [][NextFlush]_vars

\* the write path: one caller registers the work, assigns, submits and
\* approves while the other administers: it adds the admin, then makes one
\* more call (rejecting the task, owner, admins, deleting the work or
\* purging the logs) at any moment, the worker flushing in between
NextMutex ==
    \/ \E p \in Procs \ {Purger} : call_add_work(p)
    \/ \E p \in Procs \ {Purger} : call_create_task_of(p, KeyArgs)
    \/ \E p \in Procs \ {Purger} : call_submit_task(p)
    \/ \E p \in Procs \ {Purger} : call_approve_task(p)
    \/ call_reject_task(Purger)
    \/ call_set_owner_id(Purger)
    \/ call_add_admin(Purger)
    \/ call_remove_admin(Purger)
    \/ call_delete_work(Purger)
    \/ call_delete_all_logs(Purger)
    \/ \E p \in Procs \ {Purger} : return(p)
    \/ return_from(Purger, "add_admin")
    \/ \E p \in Procs : initialize_enter(p)
    \/ \E p \in Procs : initialize(p)
    \/ \E p \in Procs : add_work(p)
    \/ \E p \in Procs : create_task(p)
    \/ \E p \in Procs : submit_task(p)
    \/ \E p \in Procs : reject_task(p)
    \/ \E p \in Procs : approve_task_begin(p)
    \/ \E p \in Procs : approve_task_write(p)
    \/ \E p \in Procs : approve_task_commit(p)
    \/ \E p \in Procs : approve_task_put(p)
    \/ set_owner_id(Purger)
    \/ add_admin(Purger)
    \/ remove_admin(Purger)
    \/ delete_work(Purger)
    \/ delete_all_logs(Purger)
    \/ log_worker

SpecMutex == Init /\ [][NextMutex]_vars

\* the read pool: six readers over the five handles, each making one read
NextReaders ==
    \/ \E p \in Readers : call_fetchone(p)
    \/ \E p \in Readers : initialize_enter(p)
    \/ \E p \in Readers : initialize(p)
    \/ \E p \in Readers : get_read_conn(p)
    \/ \E p \in Readers : fetchone(p)

SpecReaders == InitReaders /\ [][NextReaders]_vars

\* the submission race: each of the two submitters makes one submit_task
\* call, the two calls overlap; a third caller registers the work and
\* assigns the task around them
\* the UPDATE of submit_task fails in the storage (the database is locked
\* by another connection for longer than busy_timeout): no handler catches
\* the error, "async with" releases write_lock and the error reaches the
\* caller; the implicit BEGIN stays open on the write handle
submit_task_error(p) ==
    /\ Holds(p, "submit_task")
    /\ in_transaction' = TRUE
    /\ Release
    /\ Done(p, "raised")
    /\ UNCHANGED <<conn, uncommitted, tables, log_queue, worker>>

\* BEGIN IMMEDIATE of delete_all_logs fails in the storage with no
\* transaction open: the handler's ROLLBACK raises "no transaction is
\* active" out of the except block, write_lock is released and the error
\* reaches the caller
delete_all_logs_error(p) ==
    /\ Holds(p, "delete_all_logs")
    /\ ~in_transaction
    /\ Release
    /\ Done(p, "raised")
    /\ UNCHANGED <<conn, in_transaction, uncommitted, tables, log_queue,
                   worker>>

\* the ledger on a storage whose statements may fail
NextErrors ==
    \/ \E p \in Procs : call_add_work(p)
    \/ \E p \in Procs : call_create_task_of(p, KeyArgs)
    \/ \E p \in Procs : call_submit_task(p)
    \/ call_delete_all_logs(Purger)
    \/ \E p \in Procs : return(p)
    \/ \E p \in Procs : initialize_enter(p)
    \/ \E p \in Procs : initialize(p)
    \/ \E p \in Procs : add_work(p)
    \/ \E p \in Procs : create_task(p)
    \/ \E p \in Procs : submit_task(p)
    \/ \E p \in Procs : submit_task_error(p)
    \/ delete_all_logs(Purger)
    \/ delete_all_logs_error(Purger)
    \/ log_worker

SpecErrors == Init /\ [][NextErrors]_vars

NextSubmit ==
    \/ call_add_work(Other)
    \/ call_create_task_of(Other, KeyArgs)
    \/ return(Other)
    \/ \E p \in Procs : call_submit_task_concurrently(p)
    \/ \E p \in Procs \cup {Other} : initialize_enter(p)
    \/ \E p \in Procs \cup {Other} : initialize(p)
    \/ add_work(Other)
    \/ create_task(Other)
    \/ \E p \in Procs : submit_task(p)
    \/ log_worker

SpecSubmit == InitRace /\ [][NextSubmit]_vars

\* the decision race: one approve_task and one reject_task, each called
\* once on the submitted task, overlap; a third caller registers the work,
\* assigns and submits around them
NextDecide ==
    \/ call_add_work(Other)
    \/ call_create_task_of(Other, KeyArgs)
    \/ call_submit_task(Other)
    \/ return(Other)
    \/ call_approve_task_concurrently(Approver)
    \/ call_reject_task_concurrently(Rejecter)
    \/ \E p \in Procs \cup {Other} : initialize_enter(p)
    \/ \E p \in Procs \cup {Other} : initialize(p)
    \/ add_work(Other)
    \/ create_task(Other)
    \/ submit_task(Other)
    \/ approve_task_begin(Approver)
    \/ approve_task_write(Approver)
    \/ approve_task_commit(Approver)
    \/ approve_task_put(Approver)
    \/ reject_task(Rejecter)
    \/ log_worker

SpecDecide == InitRace /\ [][NextDecide]_vars

\* approvals over a storage that may fail a statement of the transaction:
\* the callers register the work, assign, submit and approve
NextAbort ==
    \/ \E p \in Procs : call_add_work(p)
    \/ \E p \in Procs : call_create_task_of(p, KeyArgs)
    \/ \E p \in Procs : call_submit_task(p)
    \/ \E p \in Procs : call_approve_task(p)
    \/ \E p \in Procs : return(p)
    \/ \E p \in Procs : initialize_enter(p)
    \/ \E p \in Procs : initialize(p)
    \/ \E p \in Procs : add_work(p)
    \/ \E p \in Procs : create_task(p)
    \/ \E p \in Procs : submit_task(p)
    \/ \E p \in Procs : approve_task_begin(p)
    \/ \E p \in Procs : approve_task_write(p)
    \/ \E p \in Procs : approve_task_commit(p)
    \/ \E p \in Procs : approve_task_error(p)
    \/ \E p \in Procs : approve_task_put(p)
    \/ log_worker

SpecAbort == Init /\ [][NextAbort]_vars

\* the stats: one caller registers the work, assigns, submits and approves
\* two chapters; the reader calls get_user_stats while no other call is in
\* progress, and no call is made while it reads
NextStats ==
    \/ \E p \in Procs \ {Reader} :
          pc[Reader].at = "idle" /\ call_add_work(p)
    \/ \E p \in Procs \ {Reader} :
          pc[Reader].at = "idle" /\ call_create_task_of(p, StatArgs)
    \/ \E p \in Procs \ {Reader} :
          pc[Reader].at = "idle" /\ call_submit_task_of(p, StatKeys)
    \/ \E p \in Procs \ {Reader} :
          pc[Reader].at = "idle" /\ call_approve_task_of(p, StatKeys)
    \/ call_get_user_stats_quiescent(Reader)
    \/ \E p \in Procs : return(p)
    \/ \E p \in Procs : initialize_enter(p)
    \/ \E p \in Procs : initialize(p)
    \/ \E p \in Procs : add_work(p)
    \/ \E p \in Procs : create_task(p)
    \/ \E p \in Procs : submit_task(p)
    \/ \E p \in Procs : approve_task_begin(p)
    \/ \E p \in Procs : approve_task_write(p)
    \/ \E p \in Procs : approve_task_commit(p)
    \/ \E p \in Procs : approve_task_put(p)
    \/ get_user_stats_total(Reader)
    \/ get_user_stats_pending(Reader)
    \/ get_user_stats_submitted(Reader)
    \/ log_worker

SpecStats == Init /\ [][NextStats]_vars

\* the stats beside the lifecycle: the reader calls get_user_stats while the
\* other caller submits and approves; works and tasks are added only
\* while the reader is idle
NextStatsRace ==
    \/ \E p \in Procs \ {Reader} :
          pc[Reader].at = "idle" /\ call_add_work(p)
    \/ \E p \in Procs \ {Reader} :
          pc[Reader].at = "idle" /\ call_create_task_of(p, StatArgs)
    \/ \E p \in Procs \ {Reader} : call_submit_task_of(p, StatKeys)
    \/ \E p \in Procs \ {Reader} : call_approve_task_of(p, StatKeys)
    \/ call_get_user_stats_concurrently(Reader)
    \/ \E p \in Procs : return(p)
    \/ \E p \in Procs : initialize_enter(p)
    \/ \E p \in Procs : initialize(p)
    \/ \E p \in Procs : add_work(p)
    \/ \E p \in Procs : create_task(p)
    \/ \E p \in Procs : submit_task(p)
    \/ \E p \in Procs : approve_task_begin(p)
    \/ \E p \in Procs : approve_task_write(p)
    \/ \E p \in Procs : approve_task_commit(p)
    \/ \E p \in Procs : approve_task_put(p)
    \/ get_user_stats_total(Reader)
    \/ get_user_stats_pending(Reader)
    \/ get_user_stats_submitted(Reader)
    \/ log_worker

SpecStatsRace == Init /\ [][NextStatsRace]_vars

\* user registration: two callers assign chapters to one user under
\* display names that differ
NextUsers ==
    \/ \E p \in Procs : call_add_work(p)
    \/ \E p \in Procs : call_create_task_as(p, StatArgs, SyncNames)
    \/ \E p \in Procs : return(p)
    \/ \E p \in Procs : initialize_enter(p)
    \/ \E p \in Procs : initialize(p)
    \/ \E p \in Procs : add_work(p)
    \/ \E p \in Procs : create_task(p)
    \/ log_worker

SpecUsers == Init /\ [][NextUsers]_vars

\* the admin grants: two callers add, remove and look up the admin; the
\* entries they enqueue stay in log_queue
NextAdmins ==
    \/ \E p \in Procs : call_add_admin(p)
    \/ \E p \in Procs : call_remove_admin(p)
    \/ \E p \in Procs : call_is_admin(p)
    \/ \E p \in Procs : return(p)
    \/ \E p \in Procs : initialize_enter(p)
    \/ \E p \in Procs : initialize(p)
    \/ \E p \in Procs : add_admin(p)
    \/ \E p \in Procs : remove_admin(p)
    \/ \E p \in Procs : get_read_conn(p)
    \/ \E p \in Procs : is_admin(p)

SpecAdmins == Init /\ [][NextAdmins]_vars

\* the users of the leaderboard and their chapter rows in storage order:
\* u1..u4 with 5, 4, 3 and 2 chapters, then the rows of u5 and u6
BoardHead == <<"u1", "u1", "u1", "u1", "u1", "u2", "u2", "u2", "u2",
               "u3", "u3", "u3", "u4", "u4">>

BoardTails == {<<>>, <<"u5">>, <<"u5", "u6">>, <<"u6", "u5">>,
               <<"u6", "u5", "u5">>, <<"u5", "u6", "u5", "u6">>}

\* the chapter rows approved for the users of us, in that order: every
\* row is a further chapter of work 1
ChapterRows(us) ==
    [i \in DOMAIN us |->
       [user_id |-> us[i], work_id |-> 1,
        chapter |-> Cardinality({j \in 1..i : us[j] = us[i]}),
        price |-> 1]]

\* an initialized Database whose ledger holds the approved chapters of the
\* leaderboard's users: the work, the users, one approved task and one
\* written financial entry per chapter
InitBoard ==
    /\ initialized = TRUE
    /\ init_lock = ""
    /\ write_conn = "open"
    /\ read_queue = [i \in 1..read_pool_size |-> i]
    /\ _read_conns = [i \in 1..read_pool_size |-> i]
    /\ closed = {}
    /\ write_lock = ""
    /\ waiters = <<>>
    /\ in_transaction = FALSE
    /\ uncommitted = NoWork
    /\ works = <<[name |-> "A", is_active |-> 1]>>
    /\ \E t \in BoardTails : chapters = ChapterRows(BoardHead \o t)
    /\ users = {[user_id |-> chapters[i].user_id,
                 display_name |-> DisplayName] : i \in DOMAIN chapters}
    /\ tasks = [i \in DOMAIN chapters |->
                 [user_id |-> chapters[i].user_id,
                  work_id |-> chapters[i].work_id,
                  chapter |-> chapters[i].chapter,
                  price |-> chapters[i].price,
                  status |-> "approved", submitted_at |-> "set",
                  approved_at |-> "set", reject_reason |-> "NULL"]]
    /\ settings = ""
    /\ admins = {}
    /\ logs = [i \in DOMAIN chapters |-> financial_approve(chapters[i])]
    /\ log_queue = <<>>
    /\ batch = <<>>
    /\ wpc = "get"
    /\ pc = [p \in Procs |-> Idle]

\* a constructed Database over the file of an earlier run: a work, a user
\* and the user's pending task
InitRestart ==
    /\ initialized = FALSE
    /\ init_lock = ""
    /\ write_conn = "none"
    /\ read_queue = <<>>
    /\ _read_conns = <<>>
    /\ closed = {}
    /\ write_lock = ""
    /\ waiters = <<>>
    /\ in_transaction = FALSE
    /\ uncommitted = NoWork
    /\ works = <<[name |-> "A", is_active |-> 1]>>
    /\ users = {[user_id |-> "u1", display_name |-> DisplayName]}
    /\ tasks = <<[user_id |-> "u1", work_id |-> 1, chapter |-> 1,
                  price |-> 1, status |-> "pending", submitted_at |-> "NULL",
                  approved_at |-> "NULL", reject_reason |-> "NULL"]>>
    /\ chapters = <<>>
    /\ settings = ""
    /\ admins = {}
    /\ logs = <<>>
    /\ log_queue = <<>>
    /\ batch = <<>>
    /\ wpc = "none"
    /\ pc = [p \in Procs |-> Idle]

\* explicit and lazy initialization by two callers
NextInit ==
    \/ \E p \in Procs : call_initialize(p)
    \/ \E p \in Procs : call_fetchone(p)
    \/ \E p \in Procs : call_submit_task(p)
    \/ \E p \in Procs : return(p)
    \/ \E p \in Procs : initialize_enter(p)
    \/ \E p \in Procs : initialize(p)
    \/ \E p \in Procs : get_read_conn(p)
    \/ \E p \in Procs : fetchone(p)
    \/ \E p \in Procs : submit_task(p)

SpecInit == InitRestart /\ [][NextInit]_vars

\* close beside the lifecycle: one caller registers the work, assigns,
\* submits, approves and reads through the pool while the other closes
NextCloseRace ==
    \/ \E p \in Procs \ {Closer} : call_add_work(p)
    \/ \E p \in Procs \ {Closer} : call_create_task_of(p, KeyArgs)
    \/ \E p \in Procs \ {Closer} : call_submit_task(p)
    \/ \E p \in Procs \ {Closer} : call_approve_task(p)
    \/ \E p \in Procs \ {Closer} : call_fetchone(p)
    \/ call_close(Closer)
    \/ \E p \in Procs : return(p)
    \/ \E p \in Procs : initialize_enter(p)
    \/ \E p \in Procs : initialize(p)
    \/ \E p \in Procs : add_work(p)
    \/ \E p \in Procs : create_task(p)
    \/ \E p \in Procs : submit_task(p)
    \/ \E p \in Procs : approve_task_begin(p)
    \/ \E p \in Procs : approve_task_write(p)
    \/ \E p \in Procs : approve_task_commit(p)
    \/ \E p \in Procs : approve_task_put(p)
    \/ \E p \in Procs : execute_on_closed(p)
    \/ \E p \in Procs : get_read_conn(p)
    \/ \E p \in Procs : fetchone(p)
    \/ close_join(Closer)
    \/ close_write(Closer)
    \/ close_reads(Closer)
    \/ log_worker

SpecCloseRace == Init /\ [][NextCloseRace]_vars

\* the lifecycle by name: one caller registers the work, assigns, and
\* submits, approves and rejects by the work's name while the other
\* deletes the work
NextByName ==
    \/ \E p \in Procs \ {Purger} : call_add_work(p)
    \/ \E p \in Procs \ {Purger} : call_create_task_of(p, KeyArgs)
    \/ \E p \in Procs \ {Purger} : call_by_name(p)
    \/ call_delete_work(Purger)
    \/ \E p \in Procs : return(p)
    \/ \E p \in Procs : initialize_enter(p)
    \/ \E p \in Procs : initialize(p)
    \/ \E p \in Procs : add_work(p)
    \/ \E p \in Procs : create_task(p)
    \/ \E p \in Procs : get_work_by_name(p)
    \/ \E p \in Procs : submit_task(p)
    \/ \E p \in Procs : reject_task(p)
    \/ \E p \in Procs : approve_task_begin(p)
    \/ \E p \in Procs : approve_task_write(p)
    \/ \E p \in Procs : approve_task_commit(p)
    \/ \E p \in Procs : approve_task_put(p)
    \/ delete_work(Purger)
    \/ log_worker

SpecByName == Init /\ [][NextByName]_vars

\* the database is closed and initialized again, and an initialization may
\* fail part-way: one caller reads through the pool, the other closes,
\* and both initialize explicitly
NextReopen ==
    \/ \E p \in Procs : call_initialize(p)
    \/ \E p \in Procs \ {Closer} : call_fetchone(p)
    \/ call_close(Closer)
    \/ \E p \in Procs : return(p)
    \/ \E p \in Procs : initialize_enter(p)
    \/ \E p \in Procs : initialize(p)
    \/ \E p \in Procs : initialize_error(p)
    \/ \E p \in Procs : get_read_conn(p)
    \/ \E p \in Procs : fetchone(p)
    \/ close_join(Closer)
    \/ close_write(Closer)
    \/ close_reads(Closer)

SpecReopen == Init /\ [][NextReopen]_vars

\* one caller works on the ledger while the other closes the database; a
\* call that comes after the close initializes it again
NextClose ==
    \/ \E p \in Procs \ {Closer} : call_add_work(p)
    \/ \E p \in Procs \ {Closer} : call_create_task_of(p, KeyArgs)
    \/ call_close(Closer)
    \/ \E p \in Procs : return(p)
    \/ \E p \in Procs : initialize_enter(p)
    \/ \E p \in Procs : initialize(p)
    \/ \E p \in Procs : add_work(p)
    \/ \E p \in Procs : create_task(p)
    \/ \E p \in Procs : execute_on_closed(p)
    \/ close_join(Closer)
    \/ close_write(Closer)
    \/ close_reads(Closer)
    \/ log_worker

SpecClose == Init /\ [][NextClose]_vars

\* the leaderboard read by two callers over a ledger that nobody writes
NextBoard ==
    \/ \E p \in Procs : call_get_team_stats(p)
    \/ \E p \in Procs : return(p)
    \/ \E p \in Procs : get_team_stats_totals(p)
    \/ \E p \in Procs : get_team_stats_top(p)

SpecBoard == InitBoard /\ [][NextBoard]_vars

TypeOK ==
    /\ initialized \in BOOLEAN
    /\ write_lock \in DOMAIN pc \cup {"", "worker"}
    /\ Len(tasks) <= MaxTasks
    /\ Len(log_queue) <= LogQueueMax

\* ------------------------------------------------------------------------
\* Properties of the ledger
\* ------------------------------------------------------------------------
\* the keys (user_id, work_id, chapter) present in the committed tables
Keys ==
    {<<tasks[i].user_id, tasks[i].work_id, tasks[i].chapter>> :
        i \in DOMAIN tasks}
    \cup {<<chapters[i].user_id, chapters[i].work_id, chapters[i].chapter>> :
            i \in DOMAIN chapters}

ChaptersOf(chs, user_id, work_id, chapter) ==
    {i \in DOMAIN chs : SameKey(chs[i], user_id, work_id, chapter)}

\* every audit entry enqueued and not lost: queued, batched or written
Entries == logs \o batch \o log_queue

EntriesOf(action, user_id, work_id, chapter) ==
    {i \in DOMAIN Entries :
        /\ Entries[i].action = action
        /\ Entries[i].target_id = user_id
        /\ Entries[i].details.work_id = work_id
        /\ Entries[i].details.chapter = chapter}

\* the step is one of caller p's own
Steps(p) == pc'[p] # pc[p]

\* caller p's call finishes in this step
Finishes(p, op) ==
    pc[p].op = op /\ pc[p].at # "done" /\ pc'[p].at = "done"

\* the body of p's create_task runs in this step, for the key of work w
Creates(p, w) ==
    /\ Holds(p, "create_task")
    /\ Finishes(p, "create_task")
    /\ w \in active_works_named(works, pc[p].work_name)

\* C1: in every committed state each key (user, work, chapter) has at most
\* one task row whose status is pending or submitted, whatever interleaving
\* of create_task, submit_task, approve_task and reject_task led there.
C1_OneOpenTaskPerKey ==
    \A k \in Keys :
       Cardinality(RowsOf(tasks, k[1], k[2], k[3],
                          {"pending", "submitted"})) <= 1

\* a key with a terminal row and, beside it, its one open row
C1_Witness ==
    \E k \in Keys :
       /\ RowsOf(tasks, k[1], k[2], k[3], {"approved", "rejected"}) # {}
       /\ RowsOf(tasks, k[1], k[2], k[3], {"pending", "submitted"}) # {}

\* C2: in every committed state each key has at most one chapter row, and
\* it has a chapter row exactly when one of its task rows is approved: the
\* transition to approved and the chapter insert are committed together.
C2_ChapterIffApproved ==
    \A k \in Keys :
       /\ Cardinality(ChaptersOf(chapters, k[1], k[2], k[3])) <= 1
       /\ ChaptersOf(chapters, k[1], k[2], k[3]) # {}
            <=> RowsOf(tasks, k[1], k[2], k[3], {"approved"}) # {}

\* an approval has been committed for one key while another key has rows
\* and no chapter
C2_Witness ==
    /\ \E k \in Keys :
         /\ ChaptersOf(chapters, k[1], k[2], k[3]) # {}
         /\ RowsOf(tasks, k[1], k[2], k[3], {"approved"}) # {}
    /\ \E k \in Keys : ChaptersOf(chapters, k[1], k[2], k[3]) = {}

C4_RepeatedApproveFails ==
    [][/\ \A p \in Procs :
            (/\ pc[p].op = "approve_task"
             /\ pc[p].at \in {"locked", "approve_write", "approve_commit"}
             /\ Steps(p)
             /\ ChaptersOf(chapters, pc[p].user_id, pc[p].work_id,
                           pc[p].chapter) # {})
            => /\ tasks' = tasks
               /\ chapters' = chapters
               /\ Entries' = Entries
               /\ pc'[p].at = "done" => pc'[p].result = "none"
       /\ \A k \in Keys' :
            Cardinality(RowsOf(tasks', k[1], k[2], k[3], {"approved"})) <= 1
      ]_vars

\* an approved key was assigned and submitted again, and the repeated
\* approve_task has had its chapter insert ignored
C4_Witness ==
    \E p \in Procs :
       /\ pc[p].at = "approve_commit"
       /\ uncommitted.inserted = 0
       /\ RowsOf(tasks, pc[p].user_id, pc[p].work_id, pc[p].chapter,
                 {"approved"}) # {}

\* C5: while a key has a pending or submitted row, a create_task for that
\* key is refused as a duplicate and leaves the task rows as they are.
C5_DuplicateCreateRefused ==
    [][\A p \in Procs : \A w \in DOMAIN works :
          (/\ Creates(p, w)
           /\ RowsOf(tasks, pc[p].user_id, w, pc[p].chapter,
                     {"pending", "submitted"}) # {})
          => /\ pc'[p].result = "duplicate"
             /\ tasks' = tasks
      ]_vars

\* a create_task has been refused while the key's row was submitted
C5_Witness ==
    \E p \in Procs :
       /\ pc[p].at = "done"
       /\ pc[p].op = "create_task"
       /\ pc[p].result = "duplicate"
       /\ \E i \in DOMAIN tasks :
             tasks[i].work_id = pc[p].work_id /\ tasks[i].status = "submitted"

\* the entry a successful create_task of p for work w enqueues
CreateTaskEntry(p, w, e) ==
    /\ e.action = "create_task"
    /\ e.target_id = pc[p].user_id
    /\ e.details.work_id = w
    /\ e.details.chapter = pc[p].chapter
    /\ e.details.price = pc[p].price
    /\ e.log_type = "normal"

\* C6: a create_task refused as a duplicate changes no row of users, tasks
\* or chapters and enqueues nothing; a create_task that succeeds enqueues
\* exactly one create_task entry when log_queue has room, and none when
\* log_queue is full.
C6_CreateTaskAudit ==
    [][\A p \in Procs : \A w \in DOMAIN works :
          Creates(p, w)
          => /\ pc'[p].result = "duplicate"
                => /\ users' = users
                   /\ tasks' = tasks
                   /\ chapters' = chapters
                   /\ Entries' = Entries
             /\ pc'[p].result = "ok"
                => IF Len(log_queue) < LogQueueMax
                   THEN /\ Len(log_queue') = Len(log_queue) + 1
                        /\ SubSeq(log_queue', 1, Len(log_queue)) = log_queue
                        /\ CreateTaskEntry(p, w, log_queue'[Len(log_queue')])
                   ELSE Entries' = Entries
      ]_vars

\* C6 as the specification states it: a create_task that succeeds always
\* enqueues exactly one create_task entry.
C6_SuccessAlwaysLogged ==
    [][\A p \in Procs : \A w \in DOMAIN works :
          (Creates(p, w) /\ pc'[p].result = "ok")
          => /\ Len(log_queue') = Len(log_queue) + 1
             /\ SubSeq(log_queue', 1, Len(log_queue)) = log_queue
             /\ CreateTaskEntry(p, w, log_queue'[Len(log_queue')])
      ]_vars

\* a create_task has succeeded and its entry is nowhere: the key has a task
\* row and no create_task entry is queued, batched or written
C6_Witness ==
    \E p \in Procs :
       /\ pc[p].at = "done"
       /\ pc[p].op = "create_task"
       /\ pc[p].result = "ok"
       /\ \E k \in Keys :
             /\ RowsOf(tasks, k[1], k[2], k[3],
                       {"pending", "submitted", "approved", "rejected"}) # {}
             /\ EntriesOf("create_task", k[1], k[2], k[3]) = {}

\* C7: a create_task for a key whose task was rejected, and which has no
\* pending or submitted row, succeeds: it appends one pending row for the
\* key and leaves every earlier row, the rejected one included, unchanged.
C7_CreateAfterReject ==
    [][\A p \in Procs : \A w \in DOMAIN works :
          (/\ Creates(p, w)
           /\ RowsOf(tasks, pc[p].user_id, w, pc[p].chapter,
                     {"rejected"}) # {}
           /\ RowsOf(tasks, pc[p].user_id, w, pc[p].chapter,
                     {"pending", "submitted"}) = {})
          => /\ pc'[p].result = "ok"
             /\ Len(tasks') = Len(tasks) + 1
             /\ SubSeq(tasks', 1, Len(tasks)) = tasks
             /\ tasks'[Len(tasks')].status = "pending"
             /\ SameKey(tasks'[Len(tasks')], pc[p].user_id, w, pc[p].chapter)
      ]_vars

\* a key with a rejected row and a later pending row, the create_task that
\* made it just finished
C7_Witness ==
    \E p \in Procs :
       /\ pc[p].at = "done"
       /\ pc[p].op = "create_task"
       /\ pc[p].result = "ok"
       /\ \E i, j \in DOMAIN tasks :
             /\ i < j
             /\ tasks[i].status = "rejected"
             /\ tasks[j].status = "pending"
             /\ SameKey(tasks[j], tasks[i].user_id, tasks[i].work_id,
                        tasks[i].chapter)

\* a step of the call of op by the caller that holds write_lock
Acting(op) ==
    \E p \in DOMAIN pc : pc[p].op = op /\ write_lock = p /\ Steps(p)

\* the row b is the row a after one permitted status change, made by the
\* operation that is permitted to make it
Transition(a, b) ==
    /\ [b EXCEPT !.status = a.status, !.submitted_at = a.submitted_at,
                 !.approved_at = a.approved_at,
                 !.reject_reason = a.reject_reason] = a
    /\ \/ /\ a.status = "pending" /\ b.status = "submitted"
          /\ Acting("submit_task")
       \/ /\ a.status = "submitted" /\ b.status = "approved"
          /\ Acting("approve_task")
       \/ /\ a.status = "submitted" /\ b.status = "rejected"
          /\ Acting("reject_task")

\* C8: a task row appears only as a pending row appended by create_task; a
\* row's status changes only from pending to submitted by submit_task, from
\* submitted to approved by approve_task and from submitted to rejected by
\* reject_task; an approved or rejected row never changes and no row is
\* ever deleted.
C8_TaskLifecycle ==
    [][/\ Len(tasks') >= Len(tasks)
       /\ \A i \in DOMAIN tasks :
            tasks'[i] = tasks[i] \/ Transition(tasks[i], tasks'[i])
       /\ Len(tasks') > Len(tasks)
            => /\ Len(tasks') = Len(tasks) + 1
               /\ tasks'[Len(tasks')].status = "pending"
               /\ Acting("create_task")
      ]_vars

\* the table holds a rejected row and an approved row
C8_Witness ==
    \E i, j \in DOMAIN tasks :
       tasks[i].status = "rejected" /\ tasks[j].status = "approved"

\* the price or the chapter of the call r is out of range
Invalid(r) == r.price < 1 \/ r.price > MAX_PRICE \/ r.chapter < 1

\* C9: a create_task whose price is below 1 or above MAX_PRICE, or whose
\* chapter is below 1, returns a validation failure, creates no user, task
\* or log row, and no step of it opens the storage or takes write_lock.
C9_InvalidCreateTouchesNothing ==
    [][\A p \in Procs :
          (/\ pc[p].op = "create_task"
           /\ pc[p].at # "done"
           /\ Invalid(pc[p])
           /\ Steps(p))
          => /\ UNCHANGED <<initialized, write_conn, read_queue, wpc>>
             /\ UNCHANGED <<write_lock, waiters>>
             /\ UNCHANGED <<users, tasks, logs, log_queue>>
             /\ pc'[p].at = "done"
                  => pc'[p].result \in {"bad_price", "bad_chapter"}
      ]_vars

\* a create_task with a price or chapter out of range is inside initialize
C9_Witness ==
    \E p \in Procs :
       /\ pc[p].op = "create_task"
       /\ pc[p].at = "init_body"
       /\ Invalid(pc[p])

\* C10: the owner setting is write-once: once an owner is stored, every
\* later set_owner_id fails and the stored value never changes.
C10_OwnerWriteOnce ==
    [][settings # ""
       => /\ settings' = settings
          /\ \A p \in Procs :
               Finishes(p, "set_owner_id") => pc'[p].result = "failed"
      ]_vars

\* an owner is stored and another set_owner_id holds write_lock
C10_Witness ==
    /\ settings # ""
    /\ \E p \in Procs : Holds(p, "set_owner_id")

\* ------------------------------------------------------------------------
\* Properties of the catalogue
\* ------------------------------------------------------------------------
\* the body of p's add_work runs in this step
Adds(p) == Holds(p, "add_work") /\ Finishes(p, "add_work")

\* C11: work names are unique case-insensitively among active works: an
\* add_work whose name matches an active work's name up to letter case
\* returns the duplicate result and inserts no row, and no two active works
\* ever match one case-insensitive name.
C11_NamesUniqueNoCase ==
    [][/\ \A p \in Procs :
            (Adds(p) /\ active_works_named(works, pc[p].work_name) # {})
            => pc'[p].result = "exists" /\ works' = works
       /\ \A i, j \in DOMAIN works' :
            (/\ i # j
             /\ works'[i].is_active = 1
             /\ works'[j].is_active = 1)
            => ~NoCaseEq(works'[i].name, works'[j].name)
      ]_vars

\* an add_work has been refused for a name that an active work carries
C11_Witness ==
    \E p \in Procs :
       /\ pc[p].at = "done"
       /\ pc[p].op = "add_work"
       /\ pc[p].result = "exists"
       /\ \E i \in DOMAIN works : works[i].is_active = 1

\* C12: add_work fails as a duplicate only if an active work carries the
\* name: when none does, as after delete_work has soft-deleted the work of
\* that name, add_work succeeds, appends a new active work and, log_queue
\* having room, enqueues one add_work entry.
C12_AddAfterSoftDelete ==
    [][\A p \in Procs :
          (Adds(p) /\ active_works_named(works, pc[p].work_name) = {})
          => /\ pc'[p].result = "ok"
             /\ Len(works') = Len(works) + 1
             /\ SubSeq(works', 1, Len(works)) = works
             /\ works'[Len(works')] =
                   [name |-> pc[p].work_name, is_active |-> 1]
             /\ Len(log_queue) < LogQueueMax
                  => /\ Len(log_queue') = Len(log_queue) + 1
                     /\ log_queue'[Len(log_queue')].action = "add_work"
      ]_vars

\* a work has been soft-deleted and an add_work of its name holds
\* write_lock
C12_Witness ==
    \E p \in Procs :
       /\ Holds(p, "add_work")
       /\ \E i \in DOMAIN works :
             works[i].is_active = 0 /\ works[i].name = pc[p].work_name
       /\ active_works_named(works, pc[p].work_name) = {}

\* ------------------------------------------------------------------------
\* Properties of the audit log
\* ------------------------------------------------------------------------
\* the financial rows of a logs table, in their order
FinancialRows(tbl) == SelectSeq(tbl, IsFinancial)

\* the body of p's delete_all_logs runs in this step
Purges(p) ==
    Holds(p, "delete_all_logs") /\ Finishes(p, "delete_all_logs")

\* C13: delete_all_logs never removes a row of logs whose type is
\* financial, whatever it is interleaved with: the purge leaves the
\* financial rows exactly as they were, and every other step keeps them
\* and at most appends to them.
C13_PurgeKeepsFinancial ==
    [][/\ Len(FinancialRows(logs')) >= Len(FinancialRows(logs))
       /\ SubSeq(FinancialRows(logs'), 1, Len(FinancialRows(logs)))
            = FinancialRows(logs)
       /\ \A p \in Procs :
            Purges(p) => FinancialRows(logs') = FinancialRows(logs)
      ]_vars

\* a purge is about to run over logs that hold a financial row and a row of
\* another type
C13_Witness ==
    /\ Holds(Purger, "delete_all_logs")
    /\ ~in_transaction
    /\ \E i \in DOMAIN logs : IsFinancial(logs[i])
    /\ \E i \in DOMAIN logs : ~IsFinancial(logs[i])

\* C14: once delete_all_logs has returned, logs holds no entry of a type
\* other than financial that an operation completed before the purge began
\* had enqueued: with every other call finished before the purge is invoked
\* and none made after, logs holds financial rows and the purge's own
\* record only.
C14_PurgedEntriesStayGone ==
    (pc[Other].at = "done" /\ pc[Other].op = "delete_all_logs")
    => \A i \in DOMAIN logs :
          IsFinancial(logs[i]) \/ logs[i].action = "delete_all_logs"

\* the purge has returned while an entry enqueued before it is still on its
\* way to logs
C14_Witness ==
    /\ pc[Other].at = "done"
    /\ pc[Other].op = "delete_all_logs"
    /\ \E i \in DOMAIN (batch \o log_queue) :
          (batch \o log_queue)[i].action \in {"add_work", "create_task"}

\* the audit records of a purge among the entries enqueued and not lost
PurgeRecords == {i \in DOMAIN Entries : Entries[i].action = "delete_all_logs"}

\* C15: delete_all_logs writes the audit record of the purge first and
\* deletes afterwards: when the one purge reaches its DELETE its record is
\* already among the entries, and the deleting step enqueues nothing more.
C15_RecordBeforeDelete ==
    [][Purges(Other) => PurgeRecords # {} /\ log_queue' = log_queue]_vars

\* the purge has returned and its record waits in log_queue
C15_Witness ==
    /\ pc[Other].at = "done"
    /\ pc[Other].op = "delete_all_logs"
    /\ \E i \in DOMAIN log_queue : log_queue[i].action = "delete_all_logs"

\* C16: financial audit entries are never lost: for every chapter that an
\* approve_task has committed and whose approver is not still waiting to
\* enqueue, a financial_approve entry of that key is queued, batched or
\* written, so that it can be persisted; also after a full queue and after
\* a flush that raised a storage error.
C16_FinancialNeverLost ==
    \A i \in DOMAIN chapters :
       (\A p \in Procs :
           ~(/\ pc[p].at = "put_wait"
             /\ SameKey(pc[p], chapters[i].user_id, chapters[i].work_id,
                        chapters[i].chapter)))
       => EntriesOf("financial_approve", chapters[i].user_id,
                    chapters[i].work_id, chapters[i].chapter) # {}

\* an approval has returned its task and the worker holds the financial
\* entry in a batch it is about to flush
C16_Witness ==
    /\ wpc = "flush"
    /\ \E i \in DOMAIN batch : IsFinancial(batch[i])
    /\ \E p \in Procs :
          /\ pc[p].at = "done"
          /\ pc[p].op = "approve_task"
          /\ pc[p].result = "task"

\* ------------------------------------------------------------------------
\* Properties of the write path
\* ------------------------------------------------------------------------
\* C17: no reachable state is a deadlock: an approve_task that holds
\* write_lock while its financial entry waits for room in the full
\* log_queue can always be served, because the queue has room again or the
\* worker is free to take an entry from it without needing write_lock.
C17_NoDeadlock ==
    \A p \in Procs :
       pc[p].at = "put_wait"
       => Len(log_queue) < LogQueueMax \/ wpc = "get"

\* an approve_task waits on the full queue holding write_lock while the
\* worker is free to take an entry
C17_Witness ==
    \E p \in Procs :
       /\ pc[p].at = "put_wait"
       /\ write_lock = p
       /\ Len(log_queue) = LogQueueMax
       /\ wpc = "get"

\* positions between approve_task's BEGIN IMMEDIATE and the end of its
\* "async with self.write_lock" block
InApprove == {"approve_write", "approve_commit", "put_wait"}

\* who is executing statements on the write handle
Writers ==
    {p \in Procs : \/ pc[p].at \in InApprove
                   \/ pc[p].at = "locked" /\ write_lock = p}
    \cup (IF wpc = "flush" /\ write_lock = "worker" THEN {"worker"} ELSE {})

\* what the write handle reads and writes
WriteState == <<tables, uncommitted, in_transaction>>

\* C18: the mutating operations are mutually exclusive: at most one of the
\* callers and the worker's flush is on the write handle at a time, an
\* approve_task between its BEGIN and its COMMIT or ROLLBACK holds
\* write_lock, every change of the tables or of the open transaction is a
\* step of the holder of write_lock, and no step of another changes them
\* while an approve_task is inside its transaction.
C18_MutualExclusion ==
    [][/\ Cardinality(Writers) <= 1
       /\ \A p \in Procs : pc[p].at \in InApprove => write_lock = p
       /\ WriteState' # WriteState
            => \/ write_lock = "worker" /\ wpc = "flush" /\ wpc' = "get"
               \/ write_lock \in Procs /\ Steps(write_lock)
       /\ \A p \in Procs :
            (pc[p].at \in {"approve_write", "approve_commit"} /\ ~Steps(p))
            => WriteState' = WriteState
      ]_vars

\* an approve_task is inside its transaction while the other caller and
\* the worker both wait for write_lock
C18_Witness ==
    \E p \in Procs :
       /\ pc[p].at \in {"approve_write", "approve_commit"}
       /\ write_lock = p
       /\ Len(waiters) = 2
       /\ wpc = "flush"

\* ------------------------------------------------------------------------
\* Properties of the read pool
\* ------------------------------------------------------------------------
\* the readers that hold a read handle
Holders == {p \in Readers : pc[p].at = "reading"}

\* the handles in the pool
Pooled == {read_queue[i] : i \in DOMAIN read_queue}

Submits(p) == Holds(p, "submit_task") /\ Finishes(p, "submit_task")

\* the submit_task calls that have returned True
Submitted == {p \in Procs : /\ pc[p].at = "done"
                            /\ pc[p].op = "submit_task"
                            /\ pc[p].result = "true"}

\* C20: of the submit_task calls that run concurrently against one pending
\* task exactly one returns True; it turns that one row into a submitted
\* row and stamps submitted_at, changing no other row; a submit_task that
\* finds no pending row of its key returns False and changes nothing; so
\* no row is stamped twice and at most one call returns True, exactly one
\* once both have returned and the task was assigned before the second ran.
C20_ExactlyOneSubmitWins ==
    [][/\ \A p \in Procs :
            Submits(p)
            => LET pending == RowsOf(tasks, pc[p].user_id, pc[p].work_id,
                                     pc[p].chapter, {"pending"})
               IN IF pending = {}
                  THEN pc'[p].result = "false" /\ tasks' = tasks
                  ELSE /\ pc'[p].result = "true"
                       /\ Cardinality(pending) = 1
                       /\ DOMAIN tasks' = DOMAIN tasks
                       /\ \A i \in DOMAIN tasks :
                            tasks'[i] =
                               IF i \in pending
                               THEN [tasks[i] EXCEPT
                                        !.status = "submitted",
                                        !.submitted_at = "set"]
                               ELSE tasks[i]
                       /\ \A i \in pending : tasks[i].submitted_at = "NULL"
       /\ Cardinality(Submitted) <= 1
       /\ (\A p \in Procs : pc[p].at = "done")
            => Cardinality(Submitted) =
                 Cardinality({i \in DOMAIN tasks :
                                 tasks[i].status = "submitted"})
      ]_vars

\* both overlapping submissions have returned, one True and one False
C20_Witness ==
    /\ \A p \in Procs : pc[p].at = "done" /\ pc[p].op = "submit_task"
    /\ \E p \in Procs : pc[p].result = "true"
    /\ \E p \in Procs : pc[p].result = "false"
    /\ \E i \in DOMAIN tasks : tasks[i].status = "submitted"

\* ------------------------------------------------------------------------
\* Properties of the decision on a submitted task
\* ------------------------------------------------------------------------
\* the approval and the rejection have both returned
Decided ==
    /\ pc[Approver].at = "done" /\ pc[Approver].op = "approve_task"
    /\ pc[Rejecter].at = "done" /\ pc[Rejecter].op = "reject_task"

\* C21: when approve_task and reject_task run concurrently on one submitted
\* task exactly one of them succeeds and the other reports failure; after
\* an approval the key has one chapter and one financial entry, after a
\* rejection it has neither; no rejected task has a chapter and no approved
\* task carries a reject reason.
C21_ApproveOrReject ==
    /\ Decided
         => /\ (pc[Approver].result = "task") # (pc[Rejecter].result = "true")
            /\ pc[Approver].result \in {"task", "none"}
            /\ pc[Rejecter].result \in {"true", "false"}
            /\ \A k \in Keys :
                 IF pc[Approver].result = "task"
                 THEN /\ Cardinality(ChaptersOf(chapters, k[1], k[2],
                                                k[3])) = 1
                      /\ Cardinality(EntriesOf("financial_approve", k[1],
                                               k[2], k[3])) = 1
                 ELSE /\ ChaptersOf(chapters, k[1], k[2], k[3]) = {}
                      /\ EntriesOf("financial_approve", k[1], k[2],
                                   k[3]) = {}
    /\ \A i \in DOMAIN tasks :
         /\ tasks[i].status = "rejected"
              => ChaptersOf(chapters, tasks[i].user_id, tasks[i].work_id,
                            tasks[i].chapter) = {}
         /\ tasks[i].status = "approved" => tasks[i].reject_reason = "NULL"

\* both have returned: the rejection won and the approval found no
\* submitted task
C21_Witness ==
    /\ Decided
    /\ pc[Rejecter].result = "true"
    /\ pc[Approver].result = "none"
    /\ \E i \in DOMAIN tasks : tasks[i].status = "rejected"

\* ------------------------------------------------------------------------
\* Properties of approve_task's rollback
\* ------------------------------------------------------------------------
\* p's approve_task ends in this step without an approval
Fails(p) ==
    /\ Finishes(p, "approve_task")
    /\ write_lock = p
    /\ pc'[p].result # "task"

RECURSIVE Earned(_, _)
Earned(ids, chs) ==
    IF ids = {} THEN 0
    ELSE LET i == CHOOSE j \in ids : TRUE
         IN chs[i].price + Earned(ids \ {i}, chs)

\* the rows of a table that belong to a user
Mine(tbl, user_id) == {i \in DOMAIN tbl : tbl[i].user_id = user_id}

\* C23: in a quiescent state get_user_stats returns total_earned equal to
\* the sum of the prices of the user's chapter rows, chapters_count equal
\* to their number, pending_tasks and submitted_tasks equal to the number
\* of the user's tasks of each status; a user whose one chapter was
\* approved at price p gets total_earned = p and chapters_count = 1.
C23_StatsMatchLedger ==
    \A u \in Users :
       (/\ pc[Reader].at = "done"
        /\ pc[Reader].op = "get_user_stats")
       => /\ pc[Reader].stats.total_earned = Earned(Mine(chapters, u),
                                                    chapters)
          /\ pc[Reader].stats.chapters_count =
                Cardinality(Mine(chapters, u))
          /\ pc[Reader].stats.pending_tasks =
                Cardinality({i \in Mine(tasks, u) :
                                tasks[i].status = "pending"})
          /\ pc[Reader].stats.submitted_tasks =
                Cardinality({i \in Mine(tasks, u) :
                                tasks[i].status = "submitted"})
          /\ \A i \in Mine(chapters, u) :
                Mine(chapters, u) = {i}
                => /\ pc[Reader].stats.total_earned = chapters[i].price
                   /\ pc[Reader].stats.chapters_count = 1

\* get_user_stats has returned for a user with two approved chapters, one
\* at each end of the price range
C23_Witness ==
    /\ pc[Reader].at = "done"
    /\ pc[Reader].op = "get_user_stats"
    /\ pc[Reader].stats.chapters_count = 2
    /\ pc[Reader].stats.total_earned = MAX_PRICE + 1
    /\ \E i \in DOMAIN tasks : tasks[i].status = "approved"

\* ------------------------------------------------------------------------
\* Properties of delete_work
\* ------------------------------------------------------------------------
\* the body of p's delete_work runs in this step
Deletes(p) == Holds(p, "delete_work") /\ Finishes(p, "delete_work")

\* C24: delete_work returns failure and changes nothing when no active work
\* matches the name; otherwise it returns success and only sets is_active
\* of the matching work to 0: no row of works is removed or otherwise
\* changed, and every user, task and chapter row, those of the deleted
\* work included, stays as it was.
C24_SoftDeleteOnly ==
    [][\A p \in DOMAIN pc :
          Deletes(p)
          => /\ UNCHANGED <<users, tasks, chapters, settings, admins, logs>>
             /\ Len(works') = Len(works)
             /\ IF active_works_named(works, pc[p].work_name) = {}
                THEN /\ pc'[p].result = "false"
                     /\ UNCHANGED <<works, log_queue>>
                ELSE /\ pc'[p].result = "true"
                     /\ \A i \in DOMAIN works :
                          /\ works'[i].name = works[i].name
                          /\ works'[i].is_active =
                               IF /\ NoCaseEq(works[i].name,
                                              pc[p].work_name)
                                  /\ works[i].is_active = 1
                               THEN 0 ELSE works[i].is_active
      ]_vars

\* a delete_work has succeeded on a work that a task and a chapter refer to
C24_Witness ==
    \E p \in DOMAIN pc :
       /\ pc[p].at = "done"
       /\ pc[p].op = "delete_work"
       /\ pc[p].result = "true"
       /\ \E i \in DOMAIN tasks : works[tasks[i].work_id].is_active = 0
       /\ \E i \in DOMAIN chapters : works[chapters[i].work_id].is_active = 0

\* ------------------------------------------------------------------------
\* Properties of the user registration
\* ------------------------------------------------------------------------
\* the users rows of a user id
UserRows(tbl, user_id) == {u \in tbl : u.user_id = user_id}

\* C25: registration on assignment is get-or-create with display-name
\* sync: a create_task on an active work creates one users row for an
\* unknown user id, stores the supplied display name for a known user id
\* whose stored name differs, and never leaves two rows for one id.
C25_GetOrCreateSyncsName ==
    [][\A p \in Procs : \A w \in DOMAIN works :
          Creates(p, w)
          => /\ UserRows(users', pc[p].user_id) =
                  {[user_id |-> pc[p].user_id,
                    display_name |-> pc[p].display_name]}
             /\ \A u \in users :
                  u.user_id # pc[p].user_id => u \in users'
      ]_vars

\* a create_task for a known user under another display name holds
\* write_lock, the work being active
C25_Witness ==
    \E p \in Procs :
       /\ Holds(p, "create_task")
       /\ active_works_named(works, pc[p].work_name) # {}
       /\ \E u \in users :
             /\ u.user_id = pc[p].user_id
             /\ u.display_name # pc[p].display_name

\* ------------------------------------------------------------------------
\* Properties of the admin grants
\* ------------------------------------------------------------------------
\* the body of p's call of op runs in this step
Grants(p, op) == Holds(p, op) /\ Finishes(p, op)

TypedOps == {"set_owner_id", "add_admin", "remove_admin", "delete_work",
             "submit_task", "approve_task", "reject_task",
             "delete_all_logs"}

\* C27: no ledger operation lets a raw storage error escape to its caller:
\* a call of set_owner_id, add_admin, remove_admin, delete_work,
\* submit_task, approve_task, reject_task or delete_all_logs never ends by
\* raising.
C27_NoRawStorageError ==
    \A p \in Procs :
       (pc[p].at = "done" /\ pc[p].op \in TypedOps) => pc[p].result # "raised"

\* a submit_task has ended by raising the storage's error, the write path
\* released
C27_Witness ==
    \E p \in Procs :
       /\ pc[p].at = "done"
       /\ pc[p].op = "submit_task"
       /\ pc[p].result = "raised"
       /\ write_lock # p

\* the storage reports "database is locked" to the UPDATE of p's
\* submit_task: the statement has changed nothing and its implicit
\* transaction stays open
Busy(p) == Holds(p, "submit_task") /\ in_transaction' /\ tasks' = tasks

\* C28: a lock-busy report of the storage during a mutating operation is
\* retried within a budget of attempts: the first busy report does not end
\* the call with the busy failure.
C28_BusyIsRetried ==
    [][\A p \in Procs : Busy(p) => pc'[p].at # "done"]_vars

\* a submit_task of a pending task has ended with the storage's busy error
C28_Witness ==
    \E p \in Procs :
       /\ pc[p].at = "done"
       /\ pc[p].op = "submit_task"
       /\ pc[p].result = "raised"
       /\ in_transaction
       /\ \E i \in DOMAIN tasks : tasks[i].status = "pending"

\* ------------------------------------------------------------------------
\* Properties of a full log queue
\* ------------------------------------------------------------------------
\* p's add_work or create_task succeeds in this step and appends its entry
\* to a full log_queue
Drops(p) ==
    /\ write_lock = p
    /\ pc[p].op \in {"add_work", "create_task"}
    /\ pc[p].at # "done" /\ pc'[p].at = "done"
    /\ pc'[p].result = "ok"
    /\ Len(log_queue) >= LogQueueMax

\* C29: a non-financial entry appended to a full log queue is dropped, the
\* operation ends with its result, and a warning is logged for the drop; a
\* financial entry is never dropped: an approve_task that returns its task
\* has put its entry into the queue.
C29_DropIsLogged ==
    [][\A p \in Procs :
          /\ Drops(p) => /\ log_queue' = log_queue
                         /\ pc'[p].logged = "warning"
          /\ (Finishes(p, "approve_task") /\ pc'[p].result = "task")
             => /\ Len(log_queue') = Len(log_queue) + 1
                /\ IsFinancial(log_queue'[Len(log_queue')])
      ]_vars

\* a create_task has succeeded, the logger was given nothing and no
\* create_task entry is queued, batched or written
C29_Witness ==
    \E p \in Procs :
       /\ pc[p].at = "done"
       /\ pc[p].op = "create_task"
       /\ pc[p].result = "ok"
       /\ pc[p].logged = "none"
       /\ \A i \in DOMAIN Entries : Entries[i].action # "create_task"

\* ------------------------------------------------------------------------
\* Properties of the leaderboard
\* ------------------------------------------------------------------------
\* the callers whose get_team_stats has returned
Ranked == {p \in Procs : pc[p].at = "done" /\ pc[p].op = "get_team_stats"}

TopIds(p) == {pc[p].top_users[i].user_id : i \in DOMAIN pc[p].top_users}

\* C30: the leaderboard of get_team_stats is deterministic: over the same
\* committed chapter rows two calls return the same users in the same
\* order.
C30_LeaderboardDeterministic ==
    \A p, q \in Ranked : pc[p].top_users = pc[q].top_users

\* two calls over the same chapter rows have returned different users as
\* the top 5
C30_Witness ==
    \E p, q \in Ranked : TopIds(p) # TopIds(q)

\* ------------------------------------------------------------------------
\* Properties of a missing work
\* ------------------------------------------------------------------------
\* no active work bears the name, whatever its case
NoActiveWork(name) ==
    \A i \in DOMAIN works :
       ~(NoCaseEq(works[i].name, name) /\ works[i].is_active = 1)

\* C31: a create_task that names a work which does not exist or has been
\* soft-deleted returns the work-not-found failure and creates no user
\* row, no task row and no audit entry.
C31_CreateForMissingWork ==
    [][\A p \in Procs :
          (/\ Holds(p, "create_task")
           /\ Finishes(p, "create_task")
           /\ NoActiveWork(pc[p].work_name))
          => /\ pc'[p].result = "no_work"
             /\ users' = users
             /\ tasks' = tasks
             /\ Entries' = Entries
      ]_vars

\* a create_task was refused for a work that has been soft-deleted
C31_Witness ==
    \E p \in Procs :
       /\ pc[p].at = "done"
       /\ pc[p].op = "create_task"
       /\ pc[p].result = "no_work"
       /\ \E i \in DOMAIN works : works[i].is_active = 0
       /\ \A i \in DOMAIN works : works[i].is_active = 0

\* ------------------------------------------------------------------------
\* Properties of the chapter rows
\* ------------------------------------------------------------------------
\* C32: every chapter row carries the price fixed at assignment: a chapter
\* row is appended only by the commit of an approve_task, with the price of
\* the task row that this commit turns from submitted to approved, a price
\* in 1..MAX_PRICE; no step changes or removes a chapter row.
C32_ChapterPriceLocked ==
    [][/\ Len(chapters') >= Len(chapters)
       /\ SubSeq(chapters', 1, Len(chapters)) = chapters
       /\ chapters' # chapters
          => /\ Len(chapters') = Len(chapters) + 1
             /\ \E p \in Procs : /\ pc[p].op = "approve_task"
                                 /\ pc[p].at \in {"locked", "approve_write",
                                                  "approve_commit"}
                                 /\ write_lock = p
             /\ LET c == chapters'[Len(chapters')]
                IN /\ c.price >= 1 /\ c.price <= MAX_PRICE
                   /\ \E i \in DOMAIN tasks :
                         /\ SameKey(tasks[i], c.user_id, c.work_id, c.chapter)
                         /\ tasks[i].status = "submitted"
                         /\ tasks'[i].status = "approved"
                         /\ tasks[i].price = c.price
                         /\ tasks'[i].price = c.price
      ]_vars

\* chapters of both ends of the price range have been approved
C32_Witness ==
    /\ \E i \in DOMAIN chapters : chapters[i].price = 1
    /\ \E i \in DOMAIN chapters : chapters[i].price = MAX_PRICE

\* ------------------------------------------------------------------------
\* Properties of initialize
\* ------------------------------------------------------------------------
\* the read handles that callers hold
Held == {pc[p].conn : p \in {q \in DOMAIN pc : pc[q].at = "reading"}}

\* before initialization nothing is open and no call is past it; after it
\* the write handle is open, the worker runs and the read handles are the
\* read_pool_size handles of one initialization, each in the pool or held
InitializedOnce ==
    IF initialized
    THEN /\ write_conn = "open"
         /\ wpc # "none"
         /\ _read_conns = [i \in 1..read_pool_size |-> i]
         /\ Len(read_queue) + Cardinality(Held) = read_pool_size
         /\ Range(read_queue) \cup Held = Range(_read_conns)
    ELSE /\ write_conn = "none"
         /\ wpc = "none"
         /\ read_queue = <<>>
         /\ \A p \in Procs : pc[p].at \in {"idle", "init_wait", "init_body"}

Counted ==
    pc[Reader].stats.chapters_count + pc[Reader].stats.pending_tasks
        + pc[Reader].stats.submitted_tasks

\* C36: the counts one get_user_stats returns describe one committed state
\* of the ledger, also when submit_task and approve_task commit while it
\* reads: with the number of the user's tasks fixed during the call, each
\* task is counted once, as pending, as submitted or as a chapter, never
\* in two of the counts and never in none.
C36_StatsAreOneState ==
    \A u \in Users :
       (/\ pc[Reader].at = "done"
        /\ pc[Reader].op = "get_user_stats")
       => Counted = Cardinality(Mine(tasks, u))

\* get_user_stats has returned while the other caller's approve_task, which
\* started after the first read, has committed a chapter
C36_Witness ==
    /\ pc[Reader].at = "done"
    /\ pc[Reader].op = "get_user_stats"
    /\ \E p \in Procs \ {Reader} :
          /\ pc[p].op = "approve_task"
          /\ pc[p].at = "done"
          /\ pc[p].result = "task"
    /\ pc[Reader].stats.chapters_count < Len(chapters)

\* ------------------------------------------------------------------------
\* Properties of the financial entry of an approval
\* ------------------------------------------------------------------------
\* the positions of the financial_approve entries
Approvals == {i \in DOMAIN Entries : Entries[i].action = "financial_approve"}

\* C37: every financial_approve entry, queued, batched or written, has a
\* chapter row with its user, work, chapter and price, and no key has
\* more such entries than chapter rows; a step of an approve_task that
\* rolls back or ends with failure leaves the entries as they were.
C37_FinancialEntryIsCommitted ==
    [][/\ \A i \in Approvals' :
            \E c \in DOMAIN chapters' :
               /\ SameKey(chapters'[c], Entries'[i].target_id,
                          Entries'[i].details.work_id,
                          Entries'[i].details.chapter)
               /\ chapters'[c].price = Entries'[i].details.price
       /\ \A k \in Keys' :
            Cardinality(EntriesOf("financial_approve", k[1], k[2], k[3])')
               <= Cardinality(ChaptersOf(chapters', k[1], k[2], k[3]))
       /\ \A p \in Procs :
            (/\ pc[p].op = "approve_task"
             /\ Steps(p)
             /\ pc'[p].at = "done"
             /\ pc'[p].result = "none")
            => Entries' = Entries
      ]_vars

\* one approve_task has committed and its financial entry is enqueued or
\* written; an approve_task of a later submitted task of the key has
\* failed and the task is still submitted
C37_Witness ==
    /\ Approvals # {}
    /\ \E i \in DOMAIN tasks :
          /\ tasks[i].status = "submitted"
          /\ ChaptersOf(chapters, tasks[i].user_id, tasks[i].work_id,
                        tasks[i].chapter) # {}
    /\ \E p \in Procs : /\ pc[p].op = "approve_task"
                        /\ pc[p].at = "done"
                        /\ pc[p].result = "none"

\* ------------------------------------------------------------------------
\* Properties of the read pool across close and initialize
\* ------------------------------------------------------------------------
\* the read handles that callers hold
HeldConns == {pc[p].conn : p \in {q \in Procs : pc[q].at = "reading"}}

\* C38: whenever the database is initialized, also after a close or a
\* failed initialize, the read pool and the readers hold read_pool_size
\* handles together and every handle in the pool is open; the handle a
\* reader obtains from the pool is never a closed one.
C38_PoolIsOpenAfterReinit ==
    [][/\ initialized'
          => /\ Len(read_queue') + Cardinality(HeldConns') = read_pool_size
             /\ \A i \in DOMAIN read_queue' : read_queue'[i] \notin closed'
       /\ \A p \in Procs :
            (pc[p].at = "get_read_conn" /\ pc'[p].at = "reading")
            => pc'[p].conn \notin closed
      ]_vars

\* after a close and a new initialize a reader has obtained a handle that
\* the close had closed, and its query raised
C38_Witness ==
    /\ initialized
    /\ closed # {}
    /\ Len(_read_conns) = 2 * read_pool_size
    /\ \E p \in Procs : /\ pc[p].op = "fetchone"
                        /\ pc[p].at = "done"
                        /\ pc[p].result = "raised"

\* ------------------------------------------------------------------------
\* Properties of close beside an operation
\* ------------------------------------------------------------------------
\* caller p holds write_lock and is about to run a statement on the write
\* handle
UsesWriteConn(p) ==
    /\ write_lock = p
    /\ pc[p].at \in {"locked", "approve_write", "approve_commit"}

\* C39: close closes the write handle only when no operation holds
\* write_lock for it, and closes no read handle that a reader holds; an
\* approve_task between BEGIN and COMMIT finishes with its own result, not
\* with an error of a closed handle, and a step that ends it commits the
\* whole transaction or nothing.
C39_CloseSparesHandlesInUse ==
    [][/\ (write_conn = "open" /\ write_conn' = "closed")
          => \A p \in Procs : ~UsesWriteConn(p)
       /\ \A p \in Procs :
            pc[p].at = "reading" => pc[p].conn \notin closed' \ closed
       /\ \A p \in Procs :
            (/\ pc[p].op = "approve_task"
             /\ pc[p].at \in {"approve_write", "approve_commit"}
             /\ Steps(p)
             /\ pc'[p].at = "done")
            => /\ pc'[p].result # "raised"
               /\ \/ tasks' = tasks /\ chapters' = chapters
                  \/ /\ Len(chapters') = Len(chapters) + 1
                     /\ tasks'[pc[p].task_id].status = "approved"
      ]_vars

\* close has closed the write handle under an approve_task that is
\* between BEGIN and COMMIT
C39_Witness ==
    /\ write_conn = "closed"
    /\ \E p \in Procs : /\ pc[p].op = "approve_task"
                        /\ pc[p].at \in {"approve_write", "approve_commit"}
                        /\ write_lock = p
    /\ pc[Closer].op = "close"

\* ------------------------------------------------------------------------
\* Properties of the lifecycle by name on a deleted work
\* ------------------------------------------------------------------------
\* the open tasks of the works that are soft-deleted
OpenOnDeleted ==
    {i \in DOMAIN tasks : /\ tasks[i].status \in {"pending", "submitted"}
                          /\ works[tasks[i].work_id].is_active = 0}

\* C40: once a work is soft-deleted and no active work bears its name, a
\* submit_task_by_name, approve_task_by_name or reject_task_by_name that
\* names it returns its failure result, False or None, and changes no
\* task, chapter or log row and enqueues nothing: the pending and
\* submitted tasks of the work keep their status.
C40_ByNameFailsOnDeletedWork ==
    [][\A p \in Procs :
          (/\ pc[p].op \in ByNameOps
           /\ pc[p].at = "get_work_by_name"
           /\ Steps(p)
           /\ NoActiveWork(pc[p].work_name))
          => /\ pc'[p].at = "done"
             /\ pc'[p].result =
                   (IF pc[p].op = "approve_task_by_name" THEN "none"
                    ELSE "false")
             /\ tasks' = tasks
             /\ chapters' = chapters
             /\ Entries' = Entries
             /\ write_lock' = write_lock /\ waiters' = waiters
      ]_vars

\* a by-name call has returned its failure result while the deleted work
\* has a submitted task
C40_Witness ==
    /\ \E p \in Procs : /\ pc[p].at = "done"
                        /\ pc[p].op \in ByNameOps
                        /\ pc[p].result \in {"false", "none"}
    /\ \E i \in OpenOnDeleted : tasks[i].status = "submitted"

\* ------------------------------------------------------------------------
\* Properties of a key that has its chapter
\* ------------------------------------------------------------------------
\* the key of p's call has a chapter row
HasChapter(p) ==
    ChaptersOf(chapters, pc[p].user_id, pc[p].work_id, pc[p].chapter) # {}

\* the rows of the key of p's call, work w, with a status in sts
KeyRows(tbl, p, w, sts) ==
    RowsOf(tbl, pc[p].user_id, w, pc[p].chapter, sts)

\* C35: once a key has its chapter, a create_task for the key succeeds
\* when the key has no open row, and the new task can be submitted; every
\* approve_task on it fails and changes no row, so the task stays submitted
\* until a reject_task rejects it; the key never gets a second chapter or
\* a second financial entry.
C35_RecreatedKeyNeverApproved ==
    [][/\ \A p \in Procs : \A w \in DOMAIN works :
            (/\ Creates(p, w)
             /\ ChaptersOf(chapters, pc[p].user_id, w, pc[p].chapter) # {}
             /\ KeyRows(tasks, p, w, {"pending", "submitted"}) = {})
            => /\ pc'[p].result = "ok"
               /\ Len(tasks') = Len(tasks) + 1
               /\ KeyRows(tasks', p, w, {"pending"}) = {Len(tasks')}
       /\ \A p \in Procs :
            (/\ Submits(p)
             /\ HasChapter(p)
             /\ KeyRows(tasks, p, pc[p].work_id, {"pending"}) # {})
            => /\ pc'[p].result = "true"
               /\ KeyRows(tasks', p, pc[p].work_id, {"submitted"})
                    = KeyRows(tasks, p, pc[p].work_id, {"pending"})
       /\ \A p \in Procs :
            (/\ pc[p].op = "approve_task"
             /\ pc[p].at \in {"locked", "approve_write", "approve_commit"}
             /\ write_lock = p
             /\ Steps(p)
             /\ HasChapter(p))
            => /\ tasks' = tasks
               /\ chapters' = chapters
               /\ pc'[p].at = "done" => pc'[p].result = "none"
       /\ \A p \in Procs :
            (/\ Holds(p, "reject_task")
             /\ Finishes(p, "reject_task")
             /\ HasChapter(p)
             /\ KeyRows(tasks, p, pc[p].work_id, {"submitted"}) # {})
            => /\ pc'[p].result = "true"
               /\ KeyRows(tasks', p, pc[p].work_id, {"rejected"})
                    = KeyRows(tasks, p, pc[p].work_id,
                              {"submitted", "rejected"})
       /\ \A k \in Keys' :
            /\ Cardinality(ChaptersOf(chapters', k[1], k[2], k[3])) <= 1
            /\ Cardinality(EntriesOf("financial_approve", k[1], k[2],
                                     k[3])') <= 1
      ]_vars

\* a key with its chapter was assigned and submitted again, an approve_task
\* on it has failed and the second task has been rejected
C35_Witness ==
    /\ \E i, j \in DOMAIN tasks :
          /\ i < j
          /\ tasks[i].status = "approved"
          /\ tasks[j].status = "rejected"
          /\ SameKey(tasks[j], tasks[i].user_id, tasks[i].work_id,
                     tasks[i].chapter)
          /\ ChaptersOf(chapters, tasks[i].user_id, tasks[i].work_id,
                        tasks[i].chapter) # {}
    /\ \E p \in Procs : /\ pc[p].at = "done"
                        /\ pc[p].op = "approve_task"
                        /\ pc[p].result = "none"

====
